---- MODULE Spec2Model ----
(***************************************************************************)
(* Model of the tender-checklist-extractor ingestion-and-retrieval         *)
(* pipeline: the streaming ingest route (POST), the orchestrator           *)
(* parseDocuments, and the index session operations storeEmbeddings,       *)
(* searchRelevantChunks and cleanupEmbeddings.                             *)
(*                                                                         *)
(* One action per resumption of the async code: every remote call is a     *)
(* suspension point, and the code that runs synchronously after it (up to  *)
(* the next await) belongs to the action that resumes it.                  *)
(***************************************************************************)
EXTENDS Integers, Sequences, FiniteSets, TLC

(***************************************************************************)
(* Bounds of the model.                                                    *)
(***************************************************************************)
\* Most files in one request.
MaxFiles == 2
\* Most questions in one request.
MaxQueries == 2
\* Most slices, summed over the files of one request.
MaxSlices == 3
\* Most paragraphs the text of one slice is segmented into.
MaxParas == 2
\* Most disturbances of one run: remote calls that fail, matches that come
\* without a score, and the consumer going away.
MaxFaults == 2
\* processing.extraction.batchSize. The configuration sets 4; the model runs
\* the batching loop with a smaller value so that a document of MaxSlices
\* slices spans more than one batch.
BATCH_SIZE == 2
\* processing.embeddings.batchSize. The configuration sets 100; the model
\* runs the upsert loop with a smaller value so that a populate of a few
\* segments spans more than one upsert.
batchSize == 2

(***************************************************************************)
(* Program constants (src/lib/config.json).                                *)
(***************************************************************************)
defaultChunkSize == 4
defaultOverlap == 1
splitThreshold == 3
defaultTopK == 25
totalStepsMultiplier == 2
baseStepsCount == 2

(***************************************************************************)
(* Inputs.  A filename is a sequence of characters.                        *)
(***************************************************************************)
AlphaNum ==
  { "a","b","c","d","e","f","g","h","i","j","k","l","m","n","o","p","q","r",
    "s","t","u","v","w","x","y","z",
    "A","B","C","D","E","F","G","H","I","J","K","L","M","N","O","P","Q","R",
    "S","T","U","V","W","X","Y","Z",
    "0","1","2","3","4","5","6","7","8","9" }

FileNames == { <<"a", "-", "b">>, <<"a", "_", "b">>, <<"c">> }

\* The name of the first file of a request; the later files take every name.
FirstName == <<"a", "-", "b">>

QueryTexts == <<"q1", "q2", "q3", "q4">>

\* Page counts of the input documents: one at or below the split threshold,
\* and one for every slice count from 2 on.
PageCounts == {2} \cup { defaultChunkSize * s + 1 : s \in 1..(MaxSlices - 1) }

\* The number of paragraphs splitTextIntoParagraphs cuts the text of a slice
\* into: none, or MaxParas.
ParagraphCounts == {0, MaxParas}

\* The raw score the index reports for the top match: absent, or a positive
\* similarity (in hundredths).
NoScore == <<>>
RawScores == { NoScore, <<87>> }

\* The run's base session id (generateSessionId: prefix, clock, random).
baseSessionId == <<"s", "1">>

Min(a, b) == IF a < b THEN a ELSE b

Range(s) == { s[i] : i \in DOMAIN s }

RECURSIVE SeqSum(_)
SeqSum(s) == IF s = <<>> THEN 0 ELSE Head(s) + SeqSum(Tail(s))

(***************************************************************************)
(* Session identifiers (src/lib/extraction.ts).                            *)
(***************************************************************************)
\* filename.replace(/[^a-zA-Z0-9]/g, "_")
sanitizedFilename(filename) ==
  [ i \in 1..Len(filename) |->
      IF filename[i] \in AlphaNum THEN filename[i] ELSE "_" ]

generateFileSessionId(base, filename) ==
  base \o <<"_">> \o sanitizedFilename(filename)

(***************************************************************************)
(* Page splitter (src/lib/pdf-splitter.ts).                                *)
(***************************************************************************)
\* .sort((a, b) => a - b) of a list without duplicates: the i-th element is
\* the one with i - 1 smaller elements.
sortAscending(S) ==
  [ i \in 1..Cardinality(S) |->
      CHOOSE x \in S : Cardinality({ y \in S : y < x }) = i - 1 ]

\* A variant of primaryPages that also pushes the page at `end`.
primaryPagesInclusive(start, end) ==
  [ i \in 1..(end - start + 1) |-> start + i - 1 ]

\* The pages pushed for the primary range [start, end).
primaryPages(start, end) == [ i \in 1..(end - start) |-> start + i - 1 ]

\* A variant of slicePages that leaves out the pages before the primary
\* range.
slicePagesNoBefore(start, total, chunkSize, overlap) ==
  LET end == Min(start + chunkSize, total)
      primary == primaryPages(start, end)
      after == [ i \in 1..Cardinality({ j \in 1..overlap : end + j - 1 < total })
                   |-> end + i - 1 ]
  IN  sortAscending(Range(primary \o after))

\* One iteration of the while loop of splitPdfChunks: the page list of the
\* slice that starts at `start`.
slicePages(start, total, chunkSize, overlap) ==
  LET end == Min(start + chunkSize, total)
      primary == primaryPages(start, end)
      after == [ i \in 1..Cardinality({ j \in 1..overlap : end + j - 1 < total })
                   |-> end + i - 1 ]
      nBefore == Cardinality({ j \in 1..overlap : start - j >= 0 })
      \* unshift prepends: the last one unshifted comes first
      before == [ i \in 1..nBefore |-> start - (nBefore - i + 1) ]
      pages == before \o primary \o after
  IN  sortAscending(Range(pages))

RECURSIVE splitFrom(_, _, _, _)
splitFrom(start, total, chunkSize, overlap) ==
  IF start < total
  THEN <<slicePages(start, total, chunkSize, overlap)>>
         \o splitFrom(start + chunkSize, total, chunkSize, overlap)
  ELSE <<>>

splitPdfChunks(total, chunkSize, overlap) ==
  splitFrom(0, total, chunkSize, overlap)

\* A variant of shouldSplitPdf that also splits at the threshold.
shouldSplitPdfAtThreshold(pageCount) == pageCount >= splitThreshold

shouldSplitPdf(pageCount) == pageCount > splitThreshold

\* Buffer.from(arrayBuffer): every page of the document, in order.
wholeDocument(pageCount) == [ i \in 1..pageCount |-> i - 1 ]

\* The slices of one file: its DocumentChunk records. A pdfBuffer is given
\* by the list of the pages of the document it holds.
createPDFChunks(file) ==
  IF shouldSplitPdf(file.pages)
  THEN LET splitBuffers ==
             splitPdfChunks(file.pages, defaultChunkSize, defaultOverlap)
       IN  [ i \in 1..Len(splitBuffers) |->
               [ id |-> <<file.name, i - 1>>,
                 metadata |-> [ filename |-> file.name,
                                page |-> i,
                                chunkIndex |-> i - 1,
                                totalChunks |-> Len(splitBuffers),
                                pdfBuffer |-> splitBuffers[i] ] ] ]
  ELSE << [ id |-> <<file.name, 0>>,
            metadata |-> [ filename |-> file.name,
                           page |-> 1,
                           chunkIndex |-> 0,
                           totalChunks |-> 1,
                           pdfBuffer |-> wholeDocument(file.pages) ] ] >>


(***************************************************************************)
(* State.                                                                  *)
(***************************************************************************)
VARIABLES
  files,            \* the request's PDF files: [name, pages]
  queries,          \* the request's questions, in order
  pc,               \* where parseDocuments is suspended
  outcome,          \* "running", "returned" or "threw" (parseDocuments)
  fileChunksArray,  \* per file, its DocumentChunk list
  fileIdx,          \* the file the for loop is at (1-based), 0 before it
  fileSessionId,    \* the session id of that file
  batchIndex,       \* the batch of slices in flight (0-based)
  batchPromises,    \* per slice of the batch: where its async callback is
  processedChunks,  \* the file's segments so far
  debugInfo,        \* raw-extraction debug traces of the run
  stored,           \* the index i of the upsert loop of storeEmbeddings
  queryIdx,         \* the query the for loop is at (1-based)
  relevantChunks,   \* the matches of the query in flight
  fileAnswers,      \* the Answers of the file so far
  fileResults,      \* the FileResults of the run so far
  vectorIndex,      \* the remote vector index: namespace -> id -> vector
  stream,           \* the objects enqueued on the response stream
  currentStep,      \* the route's step counter
  totalSteps,       \* the route's total step count
  controllerOpen,   \* the stream controller accepts enqueue
  streamEnd,        \* "none", "closed" (controller.close) or "rejected"
  faults,           \* disturbances so far: failed calls, disconnects
  calls,            \* the remote calls issued and how they ended, in order
  consumer,         \* the browser's reader of the stream (ProgressTimeline)
  split,            \* the while loop of splitPdfChunks, iteration by iteration
  applied           \* a function of the library applied on its own to one input

\* The variables of the ingest route and of parseDocuments.
serverVars ==
  << files, queries, pc, outcome, fileChunksArray, fileIdx, fileSessionId,
     batchIndex, batchPromises, processedChunks, debugInfo, stored, queryIdx,
     relevantChunks, fileAnswers, fileResults, vectorIndex, stream,
     currentStep, totalSteps, controllerOpen, streamEnd, faults, calls >>

vars == << serverVars, consumer, split, applied >>

NoName == <<>>
NoChunk == <<>>
NoUpdate == <<>>

emptyNamespace == [ x \in {} |-> 0 ]

\* The files of a request: at least one, and slices within the model's bound.
FileLists ==
  { fs \in UNION { [1..n -> [name : FileNames, pages : PageCounts]]
                     : n \in 1..MaxFiles } :
      /\ fs[1].name = FirstName
      /\ SeqSum([ i \in 1..Len(fs) |-> Len(createPDFChunks(fs[i])) ])
           <= MaxSlices }

QueryLists == { SubSeq(QueryTexts, 1, n) : n \in 1..MaxQueries }

SessionIds(fs) ==
  { generateFileSessionId(baseSessionId, fs[i].name) : i \in 1..Len(fs) }

\* The reader before the form is submitted.
consumerIdle ==
  [ at |-> "idle",
    response |-> [ ok |-> TRUE, lines |-> <<>> ],
    aborted |-> FALSE,
    events |-> <<>>,
    isProcessing |-> FALSE,
    isCompleted |-> FALSE,
    onComplete |-> 0,
    onError |-> <<>> ]

\* The splitter before it is called.
splitIdle ==
  [ at |-> "idle", total |-> 0, chunkSize |-> defaultChunkSize,
    overlap |-> defaultOverlap, start |-> 0, slices |-> <<>> ]

\* No function is applied on its own.
appliedIdle == [ fn |-> "none" ]

\* The state when POST has validated the request (files fs, questions qs)
\* and built the stream, before start(controller) runs.
ServerInit(fs, qs) ==
  /\ files = fs
  /\ queries = qs
  /\ pc = "init"
  /\ outcome = "running"
  /\ fileChunksArray = <<>>
  /\ fileIdx = 0
  /\ fileSessionId = <<>>
  /\ batchIndex = 0
  /\ batchPromises = <<>>
  /\ processedChunks = <<>>
  /\ debugInfo = <<>>
  /\ stored = 0
  /\ queryIdx = 0
  /\ relevantChunks = <<>>
  /\ fileAnswers = <<>>
  /\ fileResults = <<>>
  /\ vectorIndex = [ s \in SessionIds(fs) |-> emptyNamespace ]
  /\ stream = <<>>
  /\ currentStep = 0
  /\ totalSteps = Len(fs) * 2 + Len(qs) + 2
  /\ controllerOpen = TRUE
  /\ streamEnd = "none"
  /\ faults = 0
  /\ calls = <<>>

Init ==
  /\ \E fs \in FileLists, qs \in QueryLists : ServerInit(fs, qs)
  /\ consumer = consumerIdle
  /\ split = splitIdle
  /\ applied = appliedIdle

(***************************************************************************)
(* Progress emission (src/unnamed/part_006, onProgress).                   *)
(***************************************************************************)
IO == [ stream |-> stream, currentStep |-> currentStep,
        totalSteps |-> totalSteps ]

P(step, filename, chunkId, updateTotalSteps) ==
  [ step |-> step, filename |-> filename, chunkId |-> chunkId,
    updateTotalSteps |-> updateTotalSteps ]

\* A variant of onProgress that types an update of step "error" as an
\* error object.
onProgressErrorTyped(io, e) ==
  LET cur == io.currentStep + 1
      tot == IF e.updateTotalSteps # NoUpdate THEN e.updateTotalSteps[1]
             ELSE io.totalSteps
      update == [ type |-> IF e.step = "error" THEN "error" ELSE "progress",
                  step |-> e.step,
                  filename |-> e.filename, chunkId |-> e.chunkId,
                  currentStep |-> cur, totalSteps |-> tot ]
  IN  [ stream |-> IF controllerOpen THEN Append(io.stream, update)
                   ELSE io.stream,
        currentStep |-> cur,
        totalSteps |-> tot ]

\* currentStep++, the total replaced when one is given, and the update
\* enqueued; an enqueue on a controller that is no longer open throws and
\* the throw is swallowed.
onProgress(io, e) ==
  LET cur == io.currentStep + 1
      tot == IF e.updateTotalSteps # NoUpdate THEN e.updateTotalSteps[1]
             ELSE io.totalSteps
      update == [ type |-> "progress", step |-> e.step,
                  filename |-> e.filename, chunkId |-> e.chunkId,
                  currentStep |-> cur, totalSteps |-> tot ]
  IN  [ stream |-> IF controllerOpen THEN Append(io.stream, update)
                   ELSE io.stream,
        currentStep |-> cur,
        totalSteps |-> tot ]

RECURSIVE emitProgress(_, _)
emitProgress(io, es) ==
  IF es = <<>> THEN io ELSE emitProgress(onProgress(io, Head(es)), Tail(es))

Progress(io) ==
  /\ stream' = io.stream
  /\ currentStep' = io.currentStep
  /\ totalSteps' = io.totalSteps

Call(op, doc, arg) == [ op |-> op, doc |-> doc, arg |-> arg ]


(***************************************************************************)
(* The ingest route's ends (src/unnamed/part_006, POST).                   *)
(***************************************************************************)
\* const { results, debugInfo } = await parseDocuments(...): a property the
\* returned object does not have destructures to undefined, and
\* JSON.stringify leaves an undefined property out.
completionPayload(result) ==
  IF "results" \in DOMAIN result
  THEN [ results |-> result.results, debugInfo |-> result.debugInfo ]
  ELSE [ debugInfo |-> result.debugInfo ]

completionUpdate(io, result) ==
  [ type |-> "completion", step |-> "completed", filename |-> NoName,
    chunkId |-> NoChunk, currentStep |-> io.totalSteps,
    totalSteps |-> io.totalSteps, results |-> completionPayload(result) ]

errorUpdate(io) ==
  [ type |-> "error", step |-> "error", filename |-> NoName,
    chunkId |-> NoChunk, currentStep |-> io.currentStep,
    totalSteps |-> io.totalSteps, error |-> "Failed to process documents" ]

\* parseDocuments returned `result`: the completion update is enqueued and
\* the stream closed; a throw of enqueue is caught and logged.
RouteCompletion(io, result) ==
  /\ currentStep' = io.currentStep
  /\ totalSteps' = io.totalSteps
  /\ IF controllerOpen
     THEN /\ stream' = Append(io.stream, completionUpdate(io, result))
          /\ streamEnd' = "closed"
          /\ controllerOpen' = FALSE
     ELSE /\ stream' = io.stream
          /\ UNCHANGED << streamEnd, controllerOpen >>

\* parseDocuments threw: the error update is enqueued and the stream closed;
\* here a throw of enqueue leaves start() rejected.
RouteError(io) ==
  /\ currentStep' = io.currentStep
  /\ totalSteps' = io.totalSteps
  /\ IF controllerOpen
     THEN /\ stream' = Append(io.stream, errorUpdate(io))
          /\ streamEnd' = "closed"
          /\ controllerOpen' = FALSE
     ELSE /\ stream' = io.stream
          /\ streamEnd' = "rejected"
          /\ UNCHANGED controllerOpen

(***************************************************************************)
(* parseDocuments (src/lib/extraction.ts).                                 *)
(***************************************************************************)
\* A variant of Throw for a pipeline that swallows the run-level failure:
\* parseDocuments returns what it has and the route writes the completion
\* update.
ThrowSwallowed(io) ==
  /\ pc' = "done"
  /\ outcome' = "returned"
  /\ RouteCompletion(onProgress(io, P("error", NoName, NoChunk, NoUpdate)),
                     [ fileResults |-> fileResults, debugInfo |-> debugInfo ])

\* The catch block of parseDocuments: an "error" progress update, then the
\* rethrow, which the route's catch turns into the error update.
Throw(io) ==
  /\ pc' = "done"
  /\ outcome' = "threw"
  /\ RouteError(onProgress(io, P("error", NoName, NoChunk, NoUpdate)))

\* A variant of chunkBatchesFrom whose batches hold one slice more than
\* BATCH_SIZE.
RECURSIVE chunkBatchesFromOversized(_, _)
chunkBatchesFromOversized(chunks, i) ==
  IF i < Len(chunks)
  THEN <<SubSeq(chunks, i + 1, Min(i + BATCH_SIZE + 1, Len(chunks)))>>
         \o chunkBatchesFromOversized(chunks, i + BATCH_SIZE + 1)
  ELSE <<>>

\* for (let i = 0; i < chunks.length; i += BATCH_SIZE) chunkBatches.push(...)
RECURSIVE chunkBatchesFrom(_, _)
chunkBatchesFrom(chunks, i) ==
  IF i < Len(chunks)
  THEN <<SubSeq(chunks, i + 1, Min(i + BATCH_SIZE, Len(chunks)))>>
         \o chunkBatchesFrom(chunks, i + BATCH_SIZE)
  ELSE <<>>

chunkBatches(chunks) == chunkBatchesFrom(chunks, 0)

\* batch.map(async ...) up to the first await of every callback: a
\* "processing" update and the extraction call, slice by slice.
BeginBatch(io, log, k, chunks, b) ==
  LET batch == chunkBatches(chunks)[b + 1]
      name == files[k].name
  IN  /\ batchIndex' = b
      /\ batchPromises' =
           [ i \in 1..Len(batch) |-> [ at |-> "processPDFChunk", n |-> 0 ] ]
      /\ Progress(emitProgress(io,
           [ i \in 1..Len(batch) |->
               P("processing", name, batch[i].id, NoUpdate) ]))
      /\ calls' = log \o
           [ i \in 1..Len(batch) |->
               Call("processPDFChunk", k, batch[i].metadata.chunkIndex) ]
      /\ pc' = "batch"

\* One iteration of for (const { file, chunks } of fileChunksArray), up to
\* the first await.
BeginFile(io, log, k, chunksArray) ==
  /\ fileIdx' = k
  /\ fileSessionId' = generateFileSessionId(baseSessionId, files[k].name)
  /\ processedChunks' = <<>>
  /\ fileAnswers' = <<>>
  /\ BeginBatch(onProgress(io, P("processing_file", files[k].name, NoChunk,
                                 NoUpdate)),
                log, k, chunksArray[k], 0)

\* start(controller) calls parseDocuments, which runs to its first await.
Start ==
  /\ pc = "init"
  /\ pc' = "chunking"
  /\ Progress(emitProgress(IO,
       << P("starting", NoName, NoChunk, NoUpdate),
          P("chunking", NoName, NoChunk, NoUpdate) >>
       \o [ i \in 1..Len(files) |->
              P("chunking", files[i].name, NoChunk, NoUpdate) ]))
  /\ calls' = calls \o
       [ i \in 1..Len(files) |-> Call("createPDFChunks", i, 0) ]
  /\ UNCHANGED << consumer, split, applied,
                  files, queries, outcome, fileChunksArray, fileIdx,
                  fileSessionId, batchIndex, batchPromises, processedChunks,
                  debugInfo, stored, queryIdx, relevantChunks, fileAnswers,
                  fileResults, vectorIndex, controllerOpen, streamEnd,
                  faults >>

\* A variant of actualTotalSteps that counts the queries once, not once per
\* file (the route's rough estimate).
actualTotalStepsQueriesOnce(chunksArray) ==
  SeqSum([ i \in 1..Len(chunksArray) |-> Len(chunksArray[i]) ])
      * totalStepsMultiplier
    + Len(queries)
    + baseStepsCount

actualTotalSteps(chunksArray) ==
  SeqSum([ i \in 1..Len(chunksArray) |-> Len(chunksArray[i]) ])
      * totalStepsMultiplier
    + Len(queries) * Len(files)
    + baseStepsCount

\* await Promise.all(chunkPromises) resolves.
ChunksCreated ==
  /\ pc = "chunking"
  /\ LET chunksArray == [ i \in 1..Len(files) |-> createPDFChunks(files[i]) ]
     IN  /\ fileChunksArray' = chunksArray
         /\ BeginFile(onProgress(IO, P("chunks_created", NoName, NoChunk,
                                      <<actualTotalSteps(chunksArray)>>)),
                      calls, 1, chunksArray)
  /\ UNCHANGED << consumer, split, applied,
                  files, queries, outcome, debugInfo, stored, queryIdx,
                  relevantChunks, fileResults, vectorIndex,
                  controllerOpen, streamEnd, faults >>

\* await Promise.all(chunkPromises) rejects: createPDFChunks threw for a file.
ChunkingFails ==
  /\ pc = "chunking"
  /\ faults < MaxFaults
  /\ faults' = faults + 1
  /\ \E k \in 1..Len(files) :
       calls' = Append(calls, Call("createPDFChunks.throw", k, 0))
  /\ Throw(IO)
  /\ UNCHANGED << consumer, split, applied,
                  files, queries, fileChunksArray, fileIdx, fileSessionId,
                  batchIndex, batchPromises, processedChunks, debugInfo,
                  stored, queryIdx, relevantChunks, fileAnswers, fileResults,
                  vectorIndex >>


(***************************************************************************)
(* One slice: extraction, segmentation, embedding (extraction.ts 186-250). *)
(***************************************************************************)
CurrentBatch == chunkBatches(fileChunksArray[fileIdx])[batchIndex + 1]

SliceUnchanged ==
  UNCHANGED << consumer, split, applied,
               files, queries, pc, outcome, fileChunksArray, fileIdx,
               fileSessionId, batchIndex, processedChunks, debugInfo, stored,
               queryIdx, relevantChunks, fileAnswers, fileResults,
               vectorIndex, controllerOpen, streamEnd >>

\* processPDFChunk resolves: the text is segmented into n paragraphs and
\* generateEmbeddings is called on them.
ExtractOk(i, n) ==
  /\ pc = "batch"
  /\ batchPromises[i].at = "processPDFChunk"
  /\ batchPromises' =
       [ batchPromises EXCEPT ![i] = [ at |-> "generateEmbeddings", n |-> n ] ]
  /\ Progress(onProgress(IO, P("embedding_prep", files[fileIdx].name,
                               CurrentBatch[i].id, NoUpdate)))
  /\ calls' = Append(calls, Call("generateEmbeddings", fileIdx,
                                 CurrentBatch[i].metadata.chunkIndex))
  /\ UNCHANGED faults
  /\ SliceUnchanged

\* The catch block of the slice callback: an "error" update, result null.
SliceFails(i) ==
  /\ pc = "batch"
  /\ faults < MaxFaults
  /\ faults' = faults + 1
  /\ batchPromises' = [ batchPromises EXCEPT ![i].at = "null" ]
  /\ Progress(onProgress(IO, P("error", files[fileIdx].name,
                               CurrentBatch[i].id, NoUpdate)))
  /\ calls' = Append(calls, Call("slice.null", fileIdx,
                                 CurrentBatch[i].metadata.chunkIndex))
  /\ SliceUnchanged

\* processPDFChunk rejects.
ExtractFails(i) ==
  /\ batchPromises[i].at = "processPDFChunk"
  /\ SliceFails(i)

\* generateEmbeddings rejects: an embedding call of one of the paragraphs
\* failed (no call is made for an empty paragraph list).
EmbedFails(i) ==
  /\ batchPromises[i].at = "generateEmbeddings"
  /\ batchPromises[i].n > 0
  /\ SliceFails(i)

\* generateEmbeddings resolves: the slice's result is its debug entry and
\* its processed chunks.
EmbedOk(i) ==
  /\ pc = "batch"
  /\ batchPromises[i].at = "generateEmbeddings"
  /\ batchPromises' = [ batchPromises EXCEPT ![i].at = "result" ]
  /\ Progress(onProgress(IO, P("chunk_processed", files[fileIdx].name,
                               CurrentBatch[i].id, NoUpdate)))
  /\ calls' = Append(calls, Call("slice.result", fileIdx,
       [ chunk |-> CurrentBatch[i].metadata.chunkIndex,
         n |-> batchPromises[i].n ]))
  /\ UNCHANGED faults
  /\ SliceUnchanged

\* The text of paragraph idx of a slice stands for its content: the
\* document, the slice and the ordinal it comes from.
chunkProcessedChunks(k, chunk, n) ==
  [ idx \in 1..n |->
      [ id |-> <<chunk.id, idx - 1>>,
        text |-> [ doc |-> k, chunk |-> chunk.metadata.chunkIndex,
                   paragraph |-> idx - 1 ],
        metadata |-> chunk.metadata ] ]

debugEntry(k, chunk, n) ==
  [ filename |-> files[k].name,
    rawExtraction |-> [ doc |-> k, chunk |-> chunk.metadata.chunkIndex ],
    chunks |-> n ]

\* A variant of collectChunks that does not test the result for null: the
\* paragraphs of a slice whose embedding failed are kept.
RECURSIVE collectChunksUnfiltered(_, _, _, _)
collectChunksUnfiltered(k, batch, results, i) ==
  IF i > Len(batch) THEN <<>>
  ELSE chunkProcessedChunks(k, batch[i], results[i].n)
       \o collectChunksUnfiltered(k, batch, results, i + 1)

\* A variant of collectChunks that takes the results in the order in which
\* the callbacks returned.
RECURSIVE completedFrom(_, _, _)
completedFrom(k, batch, p) ==
  IF p > Len(calls) THEN <<>>
  ELSE (IF /\ calls[p].op = "slice.result"
           /\ calls[p].doc = k
           /\ \E i \in 1..Len(batch) :
                batch[i].metadata.chunkIndex = calls[p].arg.chunk
        THEN chunkProcessedChunks(k,
               CHOOSE c \in Range(batch) :
                 c.metadata.chunkIndex = calls[p].arg.chunk,
               calls[p].arg.n)
        ELSE <<>>)
       \o completedFrom(k, batch, p + 1)

collectChunksByCompletion(k, batch, results, i) == completedFrom(k, batch, 1)

\* batchResults.forEach: the non-null results, in slice order.
RECURSIVE collectChunks(_, _, _, _)
collectChunks(k, batch, results, i) ==
  IF i > Len(batch) THEN <<>>
  ELSE (IF results[i].at = "result"
        THEN chunkProcessedChunks(k, batch[i], results[i].n)
        ELSE <<>>)
       \o collectChunks(k, batch, results, i + 1)

RECURSIVE collectDebug(_, _, _, _)
collectDebug(k, batch, results, i) ==
  IF i > Len(batch) THEN <<>>
  ELSE (IF results[i].at = "result"
        THEN <<debugEntry(k, batch[i], results[i].n)>>
        ELSE <<>>)
       \o collectDebug(k, batch, results, i + 1)

(***************************************************************************)
(* Index session manager (src/unnamed/part_002).                           *)
(***************************************************************************)
\* The vectors storeEmbeddings builds: ids `${sessionId}:chunk:${index}`.
vectors(chunks, sessionId) ==
  [ i \in 1..Len(chunks) |->
      [ id |-> <<sessionId, i - 1>>,
        metadata |-> [ text |-> chunks[i].text,
                       filename |-> chunks[i].metadata.filename,
                       chunkIndex |-> chunks[i].metadata.chunkIndex ] ] ]

\* namespace.upsert(batch): a vector replaces the one with the same id.
upsert(namespace, batch) ==
  LET ids == { batch[i].id : i \in 1..Len(batch) }
  IN  [ id \in DOMAIN namespace \cup ids |->
          IF id \in ids
          THEN (CHOOSE v \in Range(batch) : v.id = id)
          ELSE namespace[id] ]

\* result.score || 0
orZero(raw) == IF raw = NoScore THEN 0 ELSE raw[1]

\* The ids of a namespace in rank order (here: by their index).
RECURSIVE rankOrder(_)
rankOrder(ids) ==
  IF ids = {} THEN <<>>
  ELSE LET m == CHOOSE x \in ids : \A y \in ids : x[2] <= y[2]
       IN  <<m>> \o rankOrder(ids \ {m})

\* namespace.query({vector, topK}) answers with the matched vectors, the best
\* first; `top` is the raw score of the best, lower ranks score less.
queryResults(namespace, matched, top) ==
  LET order == rankOrder(matched)
  IN  [ r \in 1..Len(order) |->
          [ id |-> order[r],
            score |-> IF r = 1 THEN top
                      ELSE IF orZero(top) - (r - 1) > 0
                           THEN <<orZero(top) - (r - 1)>> ELSE <<0>>,
            metadata |-> namespace[order[r]].metadata ] ]

\* results.map(...) of searchRelevantChunks
mappedResults(results) ==
  [ r \in 1..Len(results) |->
      [ id |-> results[r].id,
        score |-> orZero(results[r].score),
        metadata |-> results[r].metadata ] ]


(***************************************************************************)
(* parseDocuments, continued: populate, queries, cleanup.                  *)
(***************************************************************************)
\* await Promise.all(batchPromises) resolves: every callback of the batch
\* has returned.  The results are collected; then the next batch starts, or
\* storeEmbeddings is called and runs to its first await.
BatchDone ==
  /\ pc = "batch"
  /\ \A i \in 1..Len(batchPromises) : batchPromises[i].at \in {"result", "null"}
  /\ LET chunks == fileChunksArray[fileIdx]
         name == files[fileIdx].name
         collected == processedChunks
                        \o collectChunks(fileIdx, CurrentBatch, batchPromises, 1)
     IN  /\ debugInfo' = debugInfo
                           \o collectDebug(fileIdx, CurrentBatch, batchPromises, 1)
         /\ IF batchIndex + 1 < Len(chunkBatches(chunks))
            THEN /\ processedChunks' = collected
                 /\ BeginBatch(IO, calls, fileIdx, chunks, batchIndex + 1)
                 /\ UNCHANGED stored
            ELSE /\ processedChunks' = collected
                 /\ Progress(emitProgress(IO,
                      << P("embeddings_ready", name, NoChunk, NoUpdate),
                         P("storing_embeddings", name, NoChunk, NoUpdate) >>))
                 /\ stored' = 0
                 /\ calls' = calls
                      \o << Call("storeEmbeddings", fileIdx, Len(collected)) >>
                      \o (IF Len(collected) > 0
                          THEN << Call("upsert", fileIdx, 0) >> ELSE <<>>)
                 /\ pc' = IF Len(collected) > 0 THEN "upsert" ELSE "settle"
                 /\ UNCHANGED << batchIndex, batchPromises >>
  /\ UNCHANGED << consumer, split, applied,
                  files, queries, outcome, fileChunksArray, fileIdx,
                  fileSessionId, queryIdx, relevantChunks, fileAnswers,
                  fileResults, vectorIndex, controllerOpen, streamEnd,
                  faults >>

\* await namespace.upsert(batch) resolves: the batch is in the namespace.
UpsertOk ==
  /\ pc = "upsert"
  /\ LET vs == vectors(processedChunks, fileSessionId)
         batch == SubSeq(vs, stored + 1, Min(stored + batchSize, Len(vs)))
         more == stored + batchSize < Len(vs)
     IN  /\ vectorIndex' =
              [ vectorIndex EXCEPT ![fileSessionId] = upsert(@, batch) ]
         /\ stored' = stored + batchSize
         /\ calls' = calls
              \o << Call("upsert.ok", fileIdx, stored) >>
              \o (IF more THEN << Call("upsert", fileIdx, stored + batchSize) >>
                  ELSE <<>>)
         /\ pc' = IF more THEN "upsert" ELSE "settle"
  /\ UNCHANGED << consumer, split, applied,
                  files, queries, outcome, fileChunksArray, fileIdx,
                  fileSessionId, batchIndex, batchPromises, processedChunks,
                  debugInfo, queryIdx, relevantChunks, fileAnswers,
                  fileResults, stream, currentStep, totalSteps,
                  controllerOpen, streamEnd, faults >>

\* await namespace.upsert(batch) rejects: storeEmbeddings rethrows and
\* parseDocuments has no handler before its outer catch.
UpsertFails ==
  /\ pc = "upsert"
  /\ faults < MaxFaults
  /\ faults' = faults + 1
  /\ calls' = calls \o << Call("upsert.throw", fileIdx, stored),
                          Call("storeEmbeddings.throw", fileIdx, stored) >>
  /\ Throw(IO)
  /\ UNCHANGED << consumer, split, applied,
                  files, queries, fileChunksArray, fileIdx, fileSessionId,
                  batchIndex, batchPromises, processedChunks, debugInfo,
                  stored, queryIdx, relevantChunks, fileAnswers, fileResults,
                  vectorIndex >>

\* A variant of NextQuery that fans the queries of a file out: the
\* retrieval calls of all queries are issued when the first one is.
NextQueryFanOut(io, log, answers, i) ==
  /\ fileAnswers' = answers
  /\ IF i <= Len(queries)
     THEN /\ queryIdx' = i
          /\ Progress(onProgress(io, P("answering", files[fileIdx].name,
                                       NoChunk, NoUpdate)))
          /\ calls' = IF i = 1
                      THEN log \o [ q \in 1..Len(queries) |->
                                      Call("searchRelevantChunks", fileIdx, q) ]
                      ELSE log
          /\ pc' = "search"
          /\ UNCHANGED fileResults
     ELSE /\ fileResults' = Append(fileResults,
             [ filename |-> files[fileIdx].name, answers |-> answers ])
          /\ Progress(io)
          /\ calls' = Append(log, Call("cleanupEmbeddings", fileIdx,
                                       fileSessionId))
          /\ pc' = "cleanup"
          /\ UNCHANGED queryIdx

\* The query loop at index i (1-based) with the file's answers so far: the
\* next search is issued, or the file's result is pushed and
\* cleanupEmbeddings called.
NextQuery(io, log, answers, i) ==
  /\ fileAnswers' = answers
  /\ IF i <= Len(queries)
     THEN /\ queryIdx' = i
          /\ Progress(onProgress(io, P("answering", files[fileIdx].name,
                                       NoChunk, NoUpdate)))
          /\ calls' = Append(log, Call("searchRelevantChunks", fileIdx, i))
          /\ pc' = "search"
          /\ UNCHANGED fileResults
     ELSE /\ fileResults' = Append(fileResults,
             [ filename |-> files[fileIdx].name, answers |-> answers ])
          /\ Progress(io)
          /\ calls' = Append(log, Call("cleanupEmbeddings", fileIdx,
                                       fileSessionId))
          /\ pc' = "cleanup"
          /\ UNCHANGED queryIdx

\* A variant of StoreDone that emits no "embeddings_stored" update.
StoreDoneSilent ==
  /\ pc = "settle"
  /\ NextQuery(IO,
               Append(calls, Call("storeEmbeddings.return", fileIdx, 0)),
               <<>>, 1)
  /\ UNCHANGED << consumer, split, applied,
                  files, queries, outcome, fileChunksArray, fileIdx,
                  fileSessionId, batchIndex, batchPromises, processedChunks,
                  debugInfo, stored, relevantChunks, vectorIndex,
                  controllerOpen, streamEnd, faults >>

\* The settling delay is over and the self-check has run (its errors are
\* caught inside testEmbeddingsStorage): storeEmbeddings returns.
StoreDone ==
  /\ pc = "settle"
  /\ NextQuery(onProgress(IO, P("embeddings_stored", files[fileIdx].name,
                                NoChunk, NoUpdate)),
               Append(calls, Call("storeEmbeddings.return", fileIdx, 0)),
               <<>>, 1)
  /\ UNCHANGED << consumer, split, applied,
                  files, queries, outcome, fileChunksArray, fileIdx,
                  fileSessionId, batchIndex, batchPromises, processedChunks,
                  debugInfo, stored, relevantChunks, vectorIndex,
                  controllerOpen, streamEnd, faults >>

QueryUnchanged ==
  UNCHANGED << consumer, split, applied,
               files, queries, outcome, fileChunksArray, fileIdx,
               fileSessionId, batchIndex, batchPromises, processedChunks,
               debugInfo, stored, vectorIndex, controllerOpen, streamEnd >>

\* searchRelevantChunks resolves with the mapped matches, and answerQuestion
\* is called with their texts.
SearchOk(matched, top) ==
  /\ pc = "search"
  /\ LET namespace == vectorIndex[fileSessionId]
     IN  /\ matched \subseteq DOMAIN namespace
         /\ Cardinality(matched)
              = Min(defaultTopK, Cardinality(DOMAIN namespace))
         /\ matched = {} => top = NoScore
         \* a match that carries no score is a disturbance of the run
         /\ IF matched # {} /\ top = NoScore
            THEN faults < MaxFaults /\ faults' = faults + 1
            ELSE UNCHANGED faults
         /\ relevantChunks' =
              mappedResults(queryResults(namespace, matched, top))
  /\ calls' = calls \o
       << Call("search.ok", fileIdx,
               [ query |-> queryIdx, top |-> top,
                 matched |-> Cardinality(matched) ]),
          Call("answerQuestion", fileIdx, queryIdx) >>
  /\ pc' = "answer"
  /\ UNCHANGED << queryIdx, fileAnswers, fileResults, stream, currentStep,
                  totalSteps >>
  /\ QueryUnchanged

\* The Answer pushed in the catch block of the query loop.
placeholder(query, name) ==
  [ query |-> query,
    answer |-> "Error: Unable to process this query due to processing error.",
    confidence |-> 0,
    sources |-> <<name>>,
    debugInfo |-> [ relevantChunks |-> <<>>, contextUsed |-> <<>> ] ]

\* A variant of answered that takes the confidence from the last match.
answeredLastScore(query, name, chunks) ==
  [ query |-> query,
    answer |-> "answer",
    confidence |-> IF Len(chunks) > 0 THEN chunks[Len(chunks)].score ELSE 0,
    sources |-> <<name>>,
    debugInfo |-> [ relevantChunks |-> chunks,
                    contextUsed |->
                      [ r \in 1..Len(chunks) |-> chunks[r].metadata.text ] ] ]

\* The Answer pushed after answerQuestion returned.
answered(query, name, chunks) ==
  [ query |-> query,
    answer |-> "answer",
    confidence |-> IF Len(chunks) > 0 THEN chunks[1].score ELSE 0,
    sources |-> <<name>>,
    debugInfo |-> [ relevantChunks |-> chunks,
                    contextUsed |->
                      [ r \in 1..Len(chunks) |-> chunks[r].metadata.text ] ] ]

\* A variant of QueryFails without the try block: the throw reaches the
\* outer catch of parseDocuments.
QueryFailsUncaught(what) ==
  /\ faults < MaxFaults
  /\ faults' = faults + 1
  /\ calls' = Append(calls, Call(what, fileIdx, queryIdx))
  /\ Throw(IO)
  /\ UNCHANGED << consumer, split, applied,
                  files, queries, fileChunksArray, fileIdx, fileSessionId,
                  batchIndex, batchPromises, processedChunks, debugInfo,
                  stored, queryIdx, relevantChunks, fileAnswers, fileResults,
                  vectorIndex >>

\* A variant of QueryFails whose catch block pushes no Answer.
QueryFailsSkipped(what) ==
  /\ faults < MaxFaults
  /\ faults' = faults + 1
  /\ NextQuery(onProgress(IO, P("error", files[fileIdx].name, NoChunk,
                                NoUpdate)),
               Append(calls, Call(what, fileIdx, queryIdx)),
               fileAnswers,
               queryIdx + 1)
  /\ UNCHANGED relevantChunks
  /\ QueryUnchanged

\* A throw inside the try block of the query loop.
QueryFails(what) ==
  /\ faults < MaxFaults
  /\ faults' = faults + 1
  /\ NextQuery(onProgress(IO, P("error", files[fileIdx].name, NoChunk,
                                NoUpdate)),
               Append(calls, Call(what, fileIdx, queryIdx)),
               Append(fileAnswers,
                      placeholder(queries[queryIdx], files[fileIdx].name)),
               queryIdx + 1)
  /\ UNCHANGED relevantChunks
  /\ QueryUnchanged

\* searchRelevantChunks rejects (the embedding or the index query failed).
SearchFails ==
  /\ pc = "search"
  /\ QueryFails("search.throw")

\* answerQuestion rejects.
AnswerFails ==
  /\ pc = "answer"
  /\ QueryFails("answerQuestion.throw")

\* answerQuestion resolves.
AnswerOk ==
  /\ pc = "answer"
  /\ NextQuery(onProgress(IO, P("question_answered", files[fileIdx].name,
                                NoChunk, NoUpdate)),
               Append(calls, Call("answerQuestion.ok", fileIdx, queryIdx)),
               Append(fileAnswers,
                      answered(queries[queryIdx], files[fileIdx].name,
                               relevantChunks)),
               queryIdx + 1)
  /\ UNCHANGED << relevantChunks, faults >>
  /\ QueryUnchanged

\* cleanupEmbeddings has returned (it never throws): the next file starts,
\* or parseDocuments returns and the route writes the completion update.
AfterCleanup(log) ==
  IF fileIdx < Len(files)
  THEN /\ BeginFile(IO, log, fileIdx + 1, fileChunksArray)
       /\ UNCHANGED << outcome, controllerOpen, streamEnd >>
  ELSE /\ pc' = "done"
       /\ outcome' = "returned"
       /\ calls' = log
       /\ RouteCompletion(
            onProgress(IO, P("completed", NoName, NoChunk, NoUpdate)),
            [ fileResults |-> fileResults, debugInfo |-> debugInfo ])
       /\ UNCHANGED << fileIdx, fileSessionId, batchIndex, batchPromises,
                       processedChunks, fileAnswers >>

CleanupUnchanged ==
  UNCHANGED << consumer, split, applied,
               files, queries, fileChunksArray, debugInfo, stored, queryIdx,
               relevantChunks, fileResults >>

\* A variant of CleanupOk whose reset leaves the namespace as it is.
CleanupOkNoReset ==
  /\ pc = "cleanup"
  /\ UNCHANGED vectorIndex
  /\ AfterCleanup(Append(calls, Call("reset.ok", fileIdx, fileSessionId)))
  /\ UNCHANGED faults
  /\ CleanupUnchanged

\* namespace.reset() resolves: the namespace is empty.
CleanupOk ==
  /\ pc = "cleanup"
  /\ vectorIndex' = [ vectorIndex EXCEPT ![fileSessionId] = emptyNamespace ]
  /\ AfterCleanup(Append(calls, Call("reset.ok", fileIdx, fileSessionId)))
  /\ UNCHANGED faults
  /\ CleanupUnchanged

\* A variant of CleanupFails in which cleanupEmbeddings rethrows.
CleanupFailsFatal ==
  /\ pc = "cleanup"
  /\ faults < MaxFaults
  /\ faults' = faults + 1
  /\ calls' = Append(calls, Call("reset.throw", fileIdx, fileSessionId))
  /\ Throw(IO)
  /\ UNCHANGED << consumer, split, applied,
                  files, queries, fileChunksArray, fileIdx, fileSessionId,
                  batchIndex, batchPromises, processedChunks, debugInfo,
                  stored, queryIdx, relevantChunks, fileAnswers, fileResults,
                  vectorIndex >>

\* namespace.reset() rejects: the error is logged and swallowed.
CleanupFails ==
  /\ pc = "cleanup"
  /\ faults < MaxFaults
  /\ faults' = faults + 1
  /\ AfterCleanup(Append(calls, Call("reset.throw", fileIdx, fileSessionId)))
  /\ UNCHANGED vectorIndex
  /\ CleanupUnchanged

\* The consumer of the response stream goes away (the client disconnects or
\* aborts): from then on controller.enqueue throws.
Disconnect ==
  /\ pc \notin {"init", "done"}
  /\ controllerOpen
  /\ faults < MaxFaults
  /\ faults' = faults + 1
  /\ controllerOpen' = FALSE
  /\ UNCHANGED << consumer, split, applied,
                  files, queries, pc, outcome, fileChunksArray, fileIdx,
                  fileSessionId, batchIndex, batchPromises, processedChunks,
                  debugInfo, stored, queryIdx, relevantChunks, fileAnswers,
                  fileResults, vectorIndex, stream, currentStep, totalSteps,
                  streamEnd, calls >>

Next ==
  \/ Start
  \/ ChunksCreated
  \/ ChunkingFails
  \/ \E i \in 1..BATCH_SIZE, n \in ParagraphCounts :
       i <= Len(batchPromises) /\ ExtractOk(i, n)
  \/ \E i \in 1..BATCH_SIZE : i <= Len(batchPromises) /\ ExtractFails(i)
  \/ \E i \in 1..BATCH_SIZE : i <= Len(batchPromises) /\ EmbedOk(i)
  \/ \E i \in 1..BATCH_SIZE : i <= Len(batchPromises) /\ EmbedFails(i)
  \/ BatchDone
  \/ UpsertOk
  \/ UpsertFails
  \/ StoreDone
  \/ /\ pc = "search"
     /\ \E top \in RawScores :
          \E matched \in SUBSET (DOMAIN vectorIndex[fileSessionId]) :
            SearchOk(matched, top)
  \/ SearchFails
  \/ AnswerOk
  \/ AnswerFails
  \/ CleanupOk
  \/ CleanupFails
  \/ Disconnect

Spec == Init /\ [][Next]_vars


(***************************************************************************)
(* The reader of the response stream (src/unnamed/part_000,                *)
(* ProgressTimeline).  One action per resumption of startProcessing, and   *)
(* one for the effect's cleanup function.                                  *)
(***************************************************************************)
\* Most lines in the body of one response.
MaxLines == 3

progressLine == [ type |-> "progress", error |-> "" ]
completionLine == [ type |-> "completion", error |-> "" ]
errorLine == [ type |-> "error", error |-> "Failed to process documents" ]

\* The bodies the ingest route can send: progress objects, then at most one
\* terminal object.
ResponseBodies ==
  LET progress(k) == [ i \in 1..k |-> progressLine ]
  IN  { progress(k) : k \in 0..MaxLines }
        \cup { Append(progress(k), t) :
                 k \in 0..(MaxLines - 1), t \in {completionLine, errorLine} }

\* The responses of POST /api/ingest: the stream, or a JSON error with a
\* status that is not ok.
Responses ==
  { [ ok |-> TRUE, lines |-> b ] : b \in ResponseBodies }
    \cup { [ ok |-> FALSE, lines |-> <<>> ] }

\* The body of for (const line of lines) for one parsed event.
handleEvent(c, event) ==
  LET seen == [ c EXCEPT !.events = Append(@, event.type) ]
  IN  IF event.type = "completion"
      THEN [ seen EXCEPT !.isCompleted = TRUE, !.isProcessing = FALSE,
                         !.onComplete = @ + 1 ]
      ELSE IF event.type = "error"
      THEN [ seen EXCEPT !.isProcessing = FALSE,
                         !.onError = Append(@, event.error) ]
      ELSE seen

RECURSIVE handleLines(_, _)
handleLines(c, lines) ==
  IF lines = <<>> THEN c
  ELSE handleLines(handleEvent(c, Head(lines)), Tail(lines))

\* A variant of catchStreamingError without the test for an aborted request.
catchStreamingErrorAlways(c, name, message) ==
  [ c EXCEPT !.at = "returned", !.isProcessing = FALSE,
             !.onError = Append(@, message) ]

\* The catch block of startProcessing for an error of the given name.
catchStreamingError(c, name, message) ==
  IF name = "AbortError"
  THEN [ c EXCEPT !.at = "returned", !.isProcessing = FALSE ]
  ELSE [ c EXCEPT !.at = "returned", !.isProcessing = FALSE,
                  !.onError = Append(@, message) ]

\* The effect runs for a submitted form: the state is reset, the abort
\* controller created and fetch called.
StartProcessing ==
  /\ consumer.at = "idle"
  /\ consumer' = [ consumer EXCEPT !.at = "fetch", !.isProcessing = TRUE ]
  /\ UNCHANGED << serverVars, split, applied >>

\* await fetch(...) resolves: a response that is not ok is thrown as an
\* Error, otherwise the read loop starts.
FetchResolves ==
  /\ consumer.at = "fetch"
  /\ ~consumer.aborted
  /\ consumer' =
       IF consumer.response.ok
       THEN [ consumer EXCEPT !.at = "read" ]
       ELSE catchStreamingError(consumer, "Error", "HTTP error! status")
  /\ UNCHANGED << serverVars, split, applied >>

\* await fetch(...) rejects: the network failed.
FetchRejects ==
  /\ consumer.at = "fetch"
  /\ ~consumer.aborted
  /\ consumer' = catchStreamingError(consumer, "TypeError", "Failed to fetch")
  /\ UNCHANGED << serverVars, split, applied >>

\* await reader.read() resolves with the next n lines of the body.
ReadChunk(n) ==
  /\ consumer.at = "read"
  /\ ~consumer.aborted
  /\ n <= Len(consumer.response.lines)
  /\ consumer' =
       [ handleLines(consumer, SubSeq(consumer.response.lines, 1, n))
           EXCEPT !.response.lines =
                    SubSeq(@, n + 1, Len(consumer.response.lines)) ]
  /\ UNCHANGED << serverVars, split, applied >>

\* await reader.read() resolves with done: the loop is left.
ReadDone ==
  /\ consumer.at = "read"
  /\ ~consumer.aborted
  /\ consumer.response.lines = <<>>
  /\ consumer' = [ consumer EXCEPT !.at = "returned" ]
  /\ UNCHANGED << serverVars, split, applied >>

\* await reader.read() rejects: the connection broke.
ReadRejects ==
  /\ consumer.at = "read"
  /\ ~consumer.aborted
  /\ consumer' = catchStreamingError(consumer, "TypeError", "network error")
  /\ UNCHANGED << serverVars, split, applied >>

\* The cleanup function of the effect: abortController.abort().
Abort ==
  /\ consumer.at \in {"fetch", "read", "returned"}
  /\ ~consumer.aborted
  /\ consumer' = [ consumer EXCEPT !.aborted = TRUE ]
  /\ UNCHANGED << serverVars, split, applied >>

\* The promise startProcessing awaits rejects with the AbortError of the
\* aborted signal.
AbortSettles ==
  /\ consumer.at \in {"fetch", "read"}
  /\ consumer.aborted
  /\ consumer' =
       catchStreamingError(consumer, "AbortError", "The operation was aborted")
  /\ UNCHANGED << serverVars, split, applied >>

ConsumerInit ==
  /\ applied = appliedIdle
  /\ ServerInit(<< [ name |-> FirstName, pages |-> 2 ] >>, <<"q1">>)
  /\ split = splitIdle
  /\ \E r \in Responses : consumer = [ consumerIdle EXCEPT !.response = r ]

ConsumerNext ==
  \/ StartProcessing
  \/ FetchResolves
  \/ FetchRejects
  \/ \E n \in 1..MaxLines : ReadChunk(n)
  \/ ReadDone
  \/ ReadRejects
  \/ Abort
  \/ AbortSettles

ConsumerSpec == ConsumerInit /\ [][ConsumerNext]_vars

(***************************************************************************)
(* The while loop of splitPdfChunks (src/lib/pdf-splitter.ts), one action  *)
(* per iteration, for every page count, chunk size and overlap.            *)
(***************************************************************************)
\* Most pages of a document given to the splitter.
MaxPages == 12
\* Largest chunk size given to the splitter.
MaxChunkSize == 4
\* Largest overlap given to the splitter.
MaxOverlap == 3

\* A variant of nextStart that advances past one page more.
nextStartSkipping(start, chunkSize) == start + chunkSize + 1

\* A variant of nextStart that advances by one page whatever the chunk size.
nextStartByOne(start, chunkSize) == start + 1

\* start += chunkSize
nextStart(start, chunkSize) == start + chunkSize

\* splitPdfChunks is called and has loaded the document.
SplitInit ==
  /\ ServerInit(<< [ name |-> FirstName, pages |-> 2 ] >>, <<"q1">>)
  /\ consumer = consumerIdle
  /\ applied = appliedIdle
  /\ \E total \in 0..MaxPages, chunkSize \in 1..MaxChunkSize,
        overlap \in 0..MaxOverlap :
       split = [ at |-> "loop", total |-> total, chunkSize |-> chunkSize,
                 overlap |-> overlap, start |-> 0, slices |-> <<>> ]

\* One iteration of while (start < total): the slice of the primary range
\* [start, end) with its overlap pages is pushed.
SplitIterate ==
  /\ split.at = "loop"
  /\ split.start < split.total
  /\ LET end == Min(split.start + split.chunkSize, split.total)
     IN  split' =
           [ split EXCEPT
               !.slices = Append(@,
                 [ start |-> split.start, end |-> end,
                   pages |-> slicePages(split.start, split.total,
                                        split.chunkSize, split.overlap) ]),
               !.start = nextStart(split.start, split.chunkSize) ]
  /\ UNCHANGED << serverVars, consumer, applied >>

\* The loop condition fails: the slices are returned.
SplitReturns ==
  /\ split.at = "loop"
  /\ split.start >= split.total
  /\ split' = [ split EXCEPT !.at = "returned" ]
  /\ UNCHANGED << serverVars, consumer, applied >>

SplitNext == SplitIterate \/ SplitReturns

SplitSpec == SplitInit /\ [][SplitNext]_vars

\* The loop under the scheduling of the runtime: every await of the loop
\* body (PDFDocument.create, copyPages, save) settles and the continuation
\* is run, so a step of the loop that can be taken is taken.
SplitFairSpec == SplitSpec /\ WF_vars(SplitNext)

\* The server, the reader and the splitter loop at rest, while a function
\* is applied on its own.
AtRest ==
  /\ ServerInit(<< [ name |-> FirstName, pages |-> 2 ] >>, <<"q1">>)
  /\ consumer = consumerIdle
  /\ split = splitIdle

AtRestUnchanged == UNCHANGED << serverVars, consumer, split >>

(***************************************************************************)
(* createPDFChunks (src/lib/pdf-parser.ts) applied to one file, for every  *)
(* page count up to MaxPages.                                              *)
(***************************************************************************)
\* createPDFChunks is called with a file.
ChunkInit ==
  /\ AtRest
  /\ \E name \in FileNames, pages \in 1..MaxPages :
       applied = [ fn |-> "createPDFChunks", at |-> "called",
                   file |-> [ name |-> name, pages |-> pages ],
                   needsSplitting |-> FALSE, chunks |-> <<>> ]

\* The page count is read and the decision to split is taken.
PageCounted ==
  /\ applied.fn = "createPDFChunks" /\ applied.at = "called"
  /\ applied' = [ applied EXCEPT
                    !.at = "counted",
                    !.needsSplitting = shouldSplitPdf(applied.file.pages) ]
  /\ AtRestUnchanged

\* if (needsSplitting): one DocumentChunk per buffer of splitPdfChunks.
ChunksFromSplit ==
  /\ applied.fn = "createPDFChunks" /\ applied.at = "counted"
  /\ applied.needsSplitting
  /\ applied' = [ applied EXCEPT !.at = "returned",
                                 !.chunks = createPDFChunks(applied.file) ]
  /\ AtRestUnchanged

\* else: the entire PDF as one chunk.
ChunkFromWhole ==
  /\ applied.fn = "createPDFChunks" /\ applied.at = "counted"
  /\ ~applied.needsSplitting
  /\ applied' = [ applied EXCEPT !.at = "returned",
                                 !.chunks = createPDFChunks(applied.file) ]
  /\ AtRestUnchanged

\* Reading or splitting the PDF throws: "Failed to process PDF" is thrown.
ChunkingThrows ==
  /\ applied.fn = "createPDFChunks" /\ applied.at \in {"called", "counted"}
  /\ applied' = [ applied EXCEPT !.at = "threw" ]
  /\ AtRestUnchanged

ChunkNext == PageCounted \/ ChunksFromSplit \/ ChunkFromWhole \/ ChunkingThrows

ChunkSpec == ChunkInit /\ [][ChunkNext]_vars

(***************************************************************************)
(* The query classifier (src/lib/extraction.ts, detectQueryType) and the   *)
(* prompt selection of answerQuestion (src/unnamed/part_003), applied to   *)
(* one query. A string is the sequence of its characters.                  *)
(***************************************************************************)
\* aiConfig.claude.conditionKeywords
conditionKeywords == <<
  <<"i", "s", "t">>,
  <<"s", "i", "n", "d">>,
  <<"h", "a", "t">>,
  <<"h", "a", "b", "e", "n">>,
  <<"k", "a", "n", "n">>,
  <<"k", "ö", "n", "n", "e", "n">>,
  <<"s", "o", "l", "l">>,
  <<"s", "o", "l", "l", "e", "n">>,
  <<"m", "u", "s", "s">>,
  <<"m", "ü", "s", "s", "e", "n">>,
  <<"d", "a", "r", "f">>,
  <<"d", "ü", "r", "f", "e", "n">>,
  <<"w", "i", "r", "d">>,
  <<"w", "e", "r", "d", "e", "n">>,
  <<"v", "o", "r", " ", "d", "e", "m">>,
  <<"n", "a", "c", "h", " ", "d", "e", "m">>,
  <<"b", "i", "s", " ", "z", "u", "m">>,
  <<"a", "b", " ", "d", "e", "m">>,
  <<"e", "r", "l", "a", "u", "b", "t">>,
  <<"z", "u", "l", "ä", "s", "s", "i", "g">>,
  <<"m", "ö", "g", "l", "i", "c", "h">>,
  <<"e", "r", "f", "o", "r", "d", "e", "r", "l", "i", "c", "h">>,
  <<"n", "o", "t", "w", "e", "n", "d", "i", "g">>,
  <<"v", "e", "r", "f", "ü", "g", "b", "a", "r">>,
  <<"v", "o", "r", "h", "a", "n", "d", "e", "n">> >>

\* The alternatives of /^(wer|was|...|wen)/i.
questionWords == <<
  <<"w", "e", "r">>,
  <<"w", "a", "s">>,
  <<"w", "a", "n", "n">>,
  <<"w", "o">>,
  <<"w", "i", "e">>,
  <<"w", "a", "r", "u", "m">>,
  <<"w", "e", "l", "c", "h", "e">>,
  <<"w", "e", "l", "c", "h", "e", "r">>,
  <<"w", "e", "l", "c", "h", "e", "s">>,
  <<"w", "e", "s", "s", "e", "n">>,
  <<"w", "e", "m">>,
  <<"w", "e", "n">> >>

upperCase == <<
  "A", "B", "C", "D", "E", "F", "G", "H", "I", "J", "K", "L", "M", "N",
  "O", "P", "Q", "R", "S", "T", "U", "V", "W", "X", "Y", "Z", "Ä", "Ö",
  "Ü" >>
lowerCase == <<
  "a", "b", "c", "d", "e", "f", "g", "h", "i", "j", "k", "l", "m", "n",
  "o", "p", "q", "r", "s", "t", "u", "v", "w", "x", "y", "z", "ä", "ö",
  "ü" >>

whitespace == { " ", "\t", "\n" }

\* String.prototype.toLowerCase
toLowerCase(str) ==
  [ i \in 1..Len(str) |->
      IF \E u \in 1..Len(upperCase) : upperCase[u] = str[i]
      THEN lowerCase[CHOOSE u \in 1..Len(upperCase) : upperCase[u] = str[i]]
      ELSE str[i] ]

\* String.prototype.includes
includes(str, search) ==
  \E i \in 0..(Len(str) - Len(search)) :
    SubSeq(str, i + 1, i + Len(search)) = search

\* String.prototype.endsWith
endsWith(str, search) ==
  /\ Len(str) >= Len(search)
  /\ SubSeq(str, Len(str) - Len(search) + 1, Len(str)) = search

\* String.prototype.trim
RECURSIVE trim(_)
trim(str) ==
  IF str = <<>> THEN str
  ELSE IF Head(str) \in whitespace THEN trim(Tail(str))
  ELSE IF str[Len(str)] \in whitespace
       THEN trim(SubSeq(str, 1, Len(str) - 1))
  ELSE str

\* /^(w1|w2|...)/i.test(input): the input begins with the letters of one of
\* the alternatives, in either case.
testQuestionWord(input) ==
  \E w \in 1..Len(questionWords) :
    /\ Len(input) >= Len(questionWords[w])
    /\ toLowerCase(SubSeq(input, 1, Len(questionWords[w]))) = questionWords[w]

hasConditionKeyword(lowercaseInput) ==
  \E k \in 1..Len(conditionKeywords) :
    includes(lowercaseInput, conditionKeywords[k])

detectQueryType(input) ==
  LET lowercaseInput == toLowerCase(input)
      hasQuestionWord == testQuestionWord(input)
      endsWithQuestionMark == endsWith(trim(input), <<"?">>)
  IN  IF /\ hasConditionKeyword(lowercaseInput)
         /\ ~hasQuestionWord
         /\ ~endsWithQuestionMark
      THEN "condition"
      ELSE "question"

\* isCondition of the answer service: the keyword test alone.
isCondition(input) == hasConditionKeyword(toLowerCase(input))

\* Most words of a query.
MaxWords == 2

\* The first words and the later words of the queries.
FirstWords == {
  <<"W", "e", "r">>,
  <<"W", "e", "r", "d", "e", "n">>,
  <<"W", "e", "n", "n">>,
  <<"W", "e", "l", "c", "h", "e">>,
  <<"D", "i", "e">>,
  <<"I", "s", "t">>,
  <<"K", "Ö", "N", "N", "E", "N">>,
  <<"A", "n", "g", "e", "b", "o", "t", "e">> }
LaterWords == {
  <<"A", "n", "g", "e", "b", "o", "t", "e">>,
  <<"F", "r", "i", "s", "t">>,
  <<"e", "r", "l", "a", "u", "b", "t">>,
  <<"k", "o", "m", "m", "e", "n">>,
  <<"b", "i", "s", " ", "z", "u", "m">> }
Endings == { <<>>, <<"?">>, <<".">> }

RECURSIVE joinWords(_)
joinWords(words) ==
  IF Len(words) = 1 THEN words[1]
  ELSE words[1] \o <<" ">> \o joinWords(Tail(words))

\* The queries: the route keeps a question trimmed and non-empty
\* (part_006:35-36).
QueryStrings ==
  { joinWords(ws) \o e :
      ws \in UNION { { <<f>> \o l : l \in [ 1..(n - 1) -> LaterWords ] } :
                     f \in FirstWords, n \in 1..MaxWords },
      e \in Endings }

\* parseDocuments reaches a query.
ClassifyInit ==
  /\ AtRest
  /\ \E input \in QueryStrings :
       applied = [ fn |-> "detectQueryType", at |-> "called",
                   input |-> input, queryType |-> "none",
                   prompt |-> "none" ]

\* const queryType = detectQueryType(query)
Classify ==
  /\ applied.fn = "detectQueryType" /\ applied.at = "called"
  /\ applied' = [ applied EXCEPT
                    !.at = "classified",
                    !.queryType = detectQueryType(applied.input) ]
  /\ AtRestUnchanged

\* answerQuestion(query, context) builds its prompt.
SelectPrompt ==
  /\ applied.fn = "detectQueryType" /\ applied.at = "classified"
  /\ applied' = [ applied EXCEPT
                    !.at = "prompted",
                    !.prompt = IF isCondition(applied.input)
                               THEN "condition" ELSE "question" ]
  /\ AtRestUnchanged

ClassifyNext == Classify \/ SelectPrompt

ClassifySpec == ClassifyInit /\ [][ClassifyNext]_vars

(***************************************************************************)
(* The text segmenter (src/lib/text-processing.ts,                         *)
(* splitTextIntoParagraphs) applied to one text. A text is a sequence of   *)
(* atoms: a run of letters ("x", "xxx", "xxxxxxxxx"), a full stop, a space *)
(* or a newline. The configured lengths 800, 800 and 30 are scaled to 8,   *)
(* 8 and 3.                                                                *)
(***************************************************************************)
\* textConfig.processing, scaled.
maxParagraphLength == 8
maxSentenceChunkLength == 8
minTextLength == 3

\* Most atoms of a text.
MaxAtoms == 5

TextAtoms == { "x", "xxx", "xxxxxxxxx", ".", " ", "\n" }

Texts == UNION { [ 1..n -> TextAtoms ] : n \in 0..MaxAtoms }

\* The number of characters of an atom.
charCount(atom) ==
  CASE atom = "xxx" -> 3
    [] atom = "xxxxxxxxx" -> 9
    [] OTHER -> 1

\* String.prototype.length
length(str) == SeqSum([ i \in 1..Len(str) |-> charCount(str[i]) ])

RECURSIVE dropWhile(_, _)
dropWhile(str, class) ==
  IF str # <<>> /\ Head(str) \in class THEN dropWhile(Tail(str), class)
  ELSE str

RECURSIVE takeWhile(_, _)
takeWhile(str, class) ==
  IF str # <<>> /\ Head(str) \in class
  THEN <<Head(str)>> \o takeWhile(Tail(str), class)
  ELSE <<>>

\* str.replace(/[class]+/g, char)
RECURSIVE replaceRuns(_, _, _)
replaceRuns(str, class, char) ==
  IF str = <<>> THEN <<>>
  ELSE IF Head(str) \in class
       THEN <<char>> \o replaceRuns(dropWhile(str, class), class, char)
  ELSE <<Head(str)>> \o replaceRuns(Tail(str), class, char)

\* str.replace(/\s*\n\s*/g, "\n"): a run of whitespace that holds a newline
\* becomes one newline.
RECURSIVE replaceAroundNewlines(_)
replaceAroundNewlines(str) ==
  IF str = <<>> THEN <<>>
  ELSE IF Head(str) \in whitespace
       THEN LET run == takeWhile(str, whitespace)
            IN  (IF \E i \in 1..Len(run) : run[i] = "\n"
                 THEN <<"\n">> ELSE run)
                  \o replaceAroundNewlines(dropWhile(str, whitespace))
  ELSE <<Head(str)>> \o replaceAroundNewlines(Tail(str))

\* The texts hold no carriage return, so the first two replacements of
\* normalizeText leave them as they are.
normalizeText(text) ==
  LET single == replaceRuns(text, {"\n"}, "\n")
      spaced == replaceRuns(single, {" ", "\t"}, " ")
      around == replaceAroundNewlines(spaced)
      others == replaceRuns(around, whitespace \ {"\n"}, " ")
  IN  trim(others)

\* The end of the match of /\n\s*\n/ that begins at i, 0 when there is none.
paragraphMatchEnd(str, i) ==
  IF str[i] # "\n" THEN 0
  ELSE LET run == takeWhile(SubSeq(str, i + 1, Len(str)), whitespace)
           ends == { j \in 1..Len(run) : run[j] = "\n" }
       IN  IF ends = {} THEN 0
           ELSE i + (CHOOSE j \in ends : \A l \in ends : l <= j)

\* str.split(new RegExp(paragraphSplitRegex))
RECURSIVE splitParagraphs(_)
splitParagraphs(str) ==
  LET starts == { i \in 1..Len(str) : paragraphMatchEnd(str, i) # 0 }
  IN  IF starts = {} THEN <<str>>
      ELSE LET i == CHOOSE a \in starts : \A b \in starts : a <= b
           IN  <<SubSeq(str, 1, i - 1)>>
                 \o splitParagraphs(
                      SubSeq(str, paragraphMatchEnd(str, i) + 1, Len(str)))

sentenceEnds == { ".", "!", "?" }

\* str.split(new RegExp(sentenceSplitRegex)), the expression being [.!?]+
RECURSIVE splitSentences(_)
splitSentences(str) ==
  LET starts == { i \in 1..Len(str) : str[i] \in sentenceEnds }
  IN  IF starts = {} THEN <<str>>
      ELSE LET i == CHOOSE a \in starts : \A b \in starts : a <= b
           IN  <<SubSeq(str, 1, i - 1)>>
                 \o splitSentences(
                      dropWhile(SubSeq(str, i, Len(str)), sentenceEnds))

\* The sections of the cleaned text that are long enough.
sectionsOf(text) ==
  SelectSeq(splitParagraphs(normalizeText(text)),
            LAMBDA sec : length(trim(sec)) >= minTextLength)

\* The trimmed sentences of a section.
sentencesOf(section) ==
  LET kept == SelectSeq(splitSentences(section),
                        LAMBDA sen : length(trim(sen)) > 0)
  IN  [ i \in 1..Len(kept) |-> trim(kept[i]) ]

\* strs.join(". ")
RECURSIVE join(_)
join(strs) ==
  IF strs = <<>> THEN <<>>
  ELSE IF Len(strs) = 1 THEN strs[1]
  ELSE strs[1] \o <<".", " ">> \o join(Tail(strs))

\* The text of the sentences at the positions `at` of the section.
joined(sentences, at) == join([ k \in 1..Len(at) |-> sentences[at[k]] ])

\* sentenceBuffer.slice(-2)
lastTwo(buffer) ==
  IF Len(buffer) <= 2 THEN buffer
  ELSE SubSeq(buffer, Len(buffer) - 1, Len(buffer))

\* A variant of postProcess that returns the kept chunks last first.
postProcessReversed(chunks) ==
  LET kept == SelectSeq(chunks,
                        LAMBDA chunk : length(trim(chunk.text)) >= minTextLength)
  IN  [ k \in 1..Len(kept) |-> kept[Len(kept) - k + 1] ]

\* A variant of postProcess that keeps every chunk.
postProcessUnfiltered(chunks) ==
  [ k \in 1..Len(chunks) |-> [ chunks[k] EXCEPT !.text = trim(@) ] ]

\* chunks.map(trim).filter(length >= minTextLength): the chunks that are
\* returned, before addContextualInfo prepends its markers.
postProcess(chunks) ==
  SelectSeq([ k \in 1..Len(chunks) |-> [ chunks[k] EXCEPT !.text = trim(@) ] ],
            LAMBDA chunk : length(chunk.text) >= minTextLength)

\* A chunk with where it comes from: its section, and for a sub-chunk of an
\* over-length section the positions of its sentences in the section.
Chunk(section, sentences, text) ==
  [ section |-> section, sentences |-> sentences, text |-> text ]

\* splitTextIntoParagraphs is called with a text.
SegmentInit ==
  /\ AtRest
  /\ \E text \in Texts :
       applied = [ fn |-> "splitTextIntoParagraphs", at |-> "called",
                   text |-> text, sections |-> <<>>, section |-> 0,
                   sentences |-> <<>>, i |-> 0, currentChunk |-> <<>>,
                   sentenceBuffer |-> <<>>, chunks |-> <<>>,
                   finalChunks |-> <<>> ]

Segmenting(at) ==
  applied.fn = "splitTextIntoParagraphs" /\ applied.at = at

\* The text is cleaned and cut into sections; the for loop begins.
SplitSections ==
  /\ Segmenting("called")
  /\ applied' = [ applied EXCEPT !.at = "sections",
                                 !.sections = sectionsOf(applied.text),
                                 !.section = 1 ]
  /\ AtRestUnchanged

\* A section of at most maxParagraphLength is pushed whole.
KeepSection ==
  /\ Segmenting("sections")
  /\ applied.section <= Len(applied.sections)
  /\ LET section == applied.sections[applied.section]
     IN  /\ length(section) <= maxParagraphLength
         /\ applied' =
              [ applied EXCEPT
                  !.chunks = Append(@, Chunk(applied.section, <<>>,
                                             trim(section))),
                  !.section = @ + 1 ]
  /\ AtRestUnchanged

\* A longer section is cut into sentences; the sentence loop begins.
SplitSection ==
  /\ Segmenting("sections")
  /\ applied.section <= Len(applied.sections)
  /\ LET section == applied.sections[applied.section]
     IN  /\ length(section) > maxParagraphLength
         /\ applied' = [ applied EXCEPT !.at = "sentences",
                                        !.sentences = sentencesOf(section),
                                        !.i = 1,
                                        !.currentChunk = <<>>,
                                        !.sentenceBuffer = <<>> ]
  /\ AtRestUnchanged

\* sentenceBuffer.push(sentence); testChunk = sentenceBuffer.join(". ")
testChunk == Append(applied.sentenceBuffer, applied.i)

\* The test chunk is within maxSentenceChunkLength: it is the current chunk.
SentenceFits ==
  /\ Segmenting("sentences")
  /\ applied.i <= Len(applied.sentences)
  /\ length(joined(applied.sentences, testChunk)) <= maxSentenceChunkLength
  /\ applied' = [ applied EXCEPT !.sentenceBuffer = testChunk,
                                 !.currentChunk = testChunk,
                                 !.i = @ + 1 ]
  /\ AtRestUnchanged

\* The test chunk is too long: the current chunk is pushed if it is not
\* empty, and the next one starts from the last two sentences of the buffer.
SentenceOverflows ==
  /\ Segmenting("sentences")
  /\ applied.i <= Len(applied.sentences)
  /\ length(joined(applied.sentences, testChunk)) > maxSentenceChunkLength
  /\ LET overlapSentences == lastTwo(testChunk)
     IN  applied' =
           [ applied EXCEPT
               !.chunks =
                 IF applied.currentChunk # <<>>
                 THEN Append(@, Chunk(applied.section, applied.currentChunk,
                                      joined(applied.sentences,
                                             applied.currentChunk)))
                 ELSE @,
               !.currentChunk = overlapSentences,
               !.sentenceBuffer = overlapSentences,
               !.i = @ + 1 ]
  /\ AtRestUnchanged

\* The sentence loop ends: the current chunk is pushed if it is long enough.
SectionDone ==
  /\ Segmenting("sentences")
  /\ applied.i > Len(applied.sentences)
  /\ LET text == joined(applied.sentences, applied.currentChunk)
     IN  applied' =
           [ applied EXCEPT
               !.at = "sections",
               !.chunks =
                 IF text # <<>> /\ length(text) >= minTextLength
                 THEN Append(@, Chunk(applied.section, applied.currentChunk,
                                      text))
                 ELSE @,
               !.section = @ + 1 ]
  /\ AtRestUnchanged

\* The section loop ends: the chunks are post-processed and returned.
SegmentReturns ==
  /\ Segmenting("sections")
  /\ applied.section > Len(applied.sections)
  /\ applied' = [ applied EXCEPT !.at = "returned",
                                 !.finalChunks = postProcess(applied.chunks) ]
  /\ AtRestUnchanged

SegmentNext ==
  \/ SplitSections
  \/ KeepSection
  \/ SplitSection
  \/ SentenceFits
  \/ SentenceOverflows
  \/ SectionDone
  \/ SegmentReturns

SegmentSpec == SegmentInit /\ [][SegmentNext]_vars

(***************************************************************************)
(* The request handling of the ingest route (src/unnamed/part_006, POST)   *)
(* up to the call of parseDocuments, for one form.                         *)
(***************************************************************************)
\* Most `files` entries and most question fields of a form.
MaxEntries == 2

\* A `files` entry of the form: a File with its MIME type, the extension of
\* its name and whether its size is above maxFileSizeBytes, or a string.
FileEntries ==
  [ isFile : {TRUE}, type : {"application/pdf", "text/plain"},
    extension : {".pdf", ".txt"}, oversize : BOOLEAN ]
  \cup { [ isFile |-> FALSE, type |-> "", extension |-> "",
           oversize |-> FALSE ] }

\* The question fields of the form, as typed.
QuestionFields == { <<>>, <<" ">>, <<"q">>, <<" ", "q", " ">> }

Forms ==
  [ questions : UNION { [ 1..n -> QuestionFields ] : n \in 0..MaxEntries },
    files : UNION { [ 1..n -> FileEntries ] : n \in 0..MaxEntries } ]

\* if (question?.trim()) questions.push(question.trim())
extractQuestions(fields) ==
  LET kept == SelectSeq(fields, LAMBDA question : trim(question) # <<>>)
  IN  [ k \in 1..Len(kept) |-> trim(kept[k]) ]

\* fileEntry instanceof File && fileEntry.type === "application/pdf"
extractFiles(entries) ==
  SelectSeq(entries,
            LAMBDA fileEntry :
              fileEntry.isFile /\ fileEntry.type = "application/pdf")

\* POST has read the form data.
PostInit ==
  /\ AtRest
  /\ \E form \in Forms :
       applied = [ fn |-> "POST", at |-> "received", form |-> form,
                   questions |-> <<>>, files |-> <<>>, status |-> 0,
                   parseDocuments |-> <<>> ]

Posting(at) == applied.fn = "POST" /\ applied.at = at

\* The questions and the PDF files are taken from the form.
ExtractInput ==
  /\ Posting("received")
  /\ applied' = [ applied EXCEPT
                    !.at = "extracted",
                    !.questions = extractQuestions(applied.form.questions),
                    !.files = extractFiles(applied.form.files) ]
  /\ AtRestUnchanged

\* questions.length === 0: status 400.
RejectNoQuestion ==
  /\ Posting("extracted")
  /\ Len(applied.questions) = 0
  /\ applied' = [ applied EXCEPT !.at = "responded", !.status = 400 ]
  /\ AtRestUnchanged

\* files.length === 0: status 400.
RejectNoFile ==
  /\ Posting("extracted")
  /\ Len(applied.questions) # 0
  /\ Len(applied.files) = 0
  /\ applied' = [ applied EXCEPT !.at = "responded", !.status = 400 ]
  /\ AtRestUnchanged

\* The stream is built and start calls parseDocuments(files, questions).
CallParseDocuments ==
  /\ Posting("extracted")
  /\ Len(applied.questions) # 0
  /\ Len(applied.files) # 0
  /\ applied' = [ applied EXCEPT !.at = "streaming", !.status = 200,
                                 !.parseDocuments = applied.files ]
  /\ AtRestUnchanged

PostNext ==
  \/ ExtractInput
  \/ RejectNoQuestion
  \/ RejectNoFile
  \/ CallParseDocuments

PostSpec == PostInit /\ [][PostNext]_vars

(***************************************************************************)
(* The read loop of the stream consumer (src/unnamed/part_000,             *)
(* startProcessing) at the level of characters: the body is cut into       *)
(* reads at any place. An update is written as "{", a letter for its type  *)
(* and "}".                                                                *)
(***************************************************************************)
EventTypes == { "progress", "completion", "error" }

typeLetter(type) ==
  CASE type = "progress" -> "p"
    [] type = "completion" -> "c"
    [] OTHER -> "e"

\* JSON.stringify(update) + "\n" (part_006:102, 137, 161)
encodeLine(type) == << "{", typeLetter(type), "}", "\n" >>

RECURSIVE encodeBody(_)
encodeBody(types) ==
  IF types = <<>> THEN <<>>
  ELSE encodeLine(Head(types)) \o encodeBody(Tail(types))

\* The updates of a response, by type.
SentUpdates == UNION { [ 1..n -> EventTypes ] : n \in 0..MaxLines }

\* buffer.split("\n")
RECURSIVE splitLines(_)
splitLines(str) ==
  LET breaks == { i \in 1..Len(str) : str[i] = "\n" }
  IN  IF breaks = {} THEN <<str>>
      ELSE LET i == CHOOSE a \in breaks : \A b \in breaks : a <= b
           IN  <<SubSeq(str, 1, i - 1)>>
                 \o splitLines(SubSeq(str, i + 1, Len(str)))

\* A variant of pop that forgets the incomplete line.
popForgetting(lines) == <<>>

\* lines.pop() || "": the piece after the last newline.
pop(lines) == lines[Len(lines)]

\* JSON.parse(line) returns an event for a whole update and throws for
\* anything else.
parses(line) ==
  \E type \in EventTypes : line = << "{", typeLetter(type), "}" >>

parse(line) == CHOOSE type \in EventTypes : line[2] = typeLetter(type)

\* for (const line of lines): a blank line is skipped, a line that does not
\* parse is logged, an event is appended and handled.
RECURSIVE handleBufferedLines(_, _)
handleBufferedLines(events, lines) ==
  IF lines = <<>> THEN events
  ELSE handleBufferedLines(
         IF trim(Head(lines)) # <<>> /\ parses(Head(lines))
         THEN Append(events, parse(Head(lines)))
         ELSE events,
         Tail(lines))

\* The read loop begins on a response body.
ReaderInit ==
  /\ AtRest
  /\ \E sent \in SentUpdates :
       applied = [ fn |-> "reader", at |-> "read", sent |-> sent,
                   body |-> encodeBody(sent), buffer |-> <<>>,
                   events |-> <<>> ]

\* await reader.read() resolves with the next n characters of the body:
\* they are added to the buffer, the complete lines are handled and the
\* incomplete one is kept.
ReadValue(n) ==
  /\ applied.fn = "reader" /\ applied.at = "read"
  /\ n <= Len(applied.body)
  /\ LET value == SubSeq(applied.body, 1, n)
         lines == splitLines(applied.buffer \o value)
     IN  applied' =
           [ applied EXCEPT
               !.body = SubSeq(@, n + 1, Len(@)),
               !.buffer = pop(lines),
               !.events = handleBufferedLines(
                            @, SubSeq(lines, 1, Len(lines) - 1)) ]
  /\ AtRestUnchanged

\* await reader.read() resolves with done.
ReadEnds ==
  /\ applied.fn = "reader" /\ applied.at = "read"
  /\ applied.body = <<>>
  /\ applied' = [ applied EXCEPT !.at = "done" ]
  /\ AtRestUnchanged

ReaderNext ==
  \/ \E n \in 1..(4 * MaxLines) : ReadValue(n)
  \/ ReadEnds

ReaderSpec == ReaderInit /\ [][ReaderNext]_vars

(***************************************************************************)
(* storeEmbeddings (src/unnamed/part_002) applied to one list of segments, *)
(* batch by batch, with its self-check.                                    *)
(***************************************************************************)
\* Most segments given to storeEmbeddings.
MaxSegments == 6

\* A variant of slice that takes one vector more.
sliceOversized(vs, i, size) == SubSeq(vs, i + 1, Min(i + size + 1, Len(vs)))

\* vectors.slice(i, i + batchSize)
slice(vs, i, size) == SubSeq(vs, i + 1, Min(i + size, Len(vs)))

\* storeEmbeddings is called with n segments of a file and has built its
\* vectors.
StoreInit ==
  /\ AtRest
  /\ \E name \in FileNames, n \in 0..MaxSegments :
       LET file == [ name |-> name, pages |-> 2 ]
           chunks == chunkProcessedChunks(1, createPDFChunks(file)[1], n)
           sessionId == generateFileSessionId(baseSessionId, name)
       IN  applied = [ fn |-> "storeEmbeddings", at |-> "loop",
                       processedChunks |-> chunks,
                       vectors |-> vectors(chunks, sessionId),
                       i |-> 0, upserts |-> <<>>, selfCheck |-> "none" ]

Storing(at) == applied.fn = "storeEmbeddings" /\ applied.at = at

\* await namespace.upsert(batch) resolves; i += batchSize.
UpsertResolves ==
  /\ Storing("loop")
  /\ applied.i < Len(applied.vectors)
  /\ applied' = [ applied EXCEPT
                    !.upserts = Append(@, slice(applied.vectors, applied.i,
                                                batchSize)),
                    !.i = @ + batchSize ]
  /\ AtRestUnchanged

\* await namespace.upsert(batch) rejects: "Failed to store embeddings" is
\* thrown.
UpsertRejects ==
  /\ Storing("loop")
  /\ applied.i < Len(applied.vectors)
  /\ applied' = [ applied EXCEPT
                    !.upserts = Append(@, slice(applied.vectors, applied.i,
                                                batchSize)),
                    !.at = "threw" ]
  /\ AtRestUnchanged

\* The loop is over and the settling delay has passed: testEmbeddingsStorage
\* is called.
Settled ==
  /\ Storing("loop")
  /\ applied.i >= Len(applied.vectors)
  /\ applied' = [ applied EXCEPT !.at = "testEmbeddingsStorage" ]
  /\ AtRestUnchanged

\* The fetch and the query of the self-check resolve.
SelfCheckPasses ==
  /\ Storing("testEmbeddingsStorage")
  /\ applied' = [ applied EXCEPT !.at = "returned", !.selfCheck = "passed" ]
  /\ AtRestUnchanged

\* The fetch or the query of the self-check rejects: the error is logged in
\* testEmbeddingsStorage.
SelfCheckFails ==
  /\ Storing("testEmbeddingsStorage")
  /\ applied' = [ applied EXCEPT !.at = "returned", !.selfCheck = "failed" ]
  /\ AtRestUnchanged

StoreNext ==
  \/ UpsertResolves
  \/ UpsertRejects
  \/ Settled
  \/ SelfCheckPasses
  \/ SelfCheckFails

StoreSpec == StoreInit /\ [][StoreNext]_vars


(***************************************************************************)
(* Properties.                                                             *)
(***************************************************************************)
CallsOf(op, d) ==
  { i \in DOMAIN calls : calls[i].op = op /\ calls[i].doc = d }

Populated(d) == CallsOf("storeEmbeddings.return", d) # {}

SessionOf(d) == generateFileSessionId(baseSessionId, files[d].name)

\* The Answers of document d so far.
AnswersOf(d) ==
  IF d <= Len(fileResults) THEN fileResults[d].answers
  ELSE IF d = fileIdx THEN fileAnswers
  ELSE <<>>

PlaceholderText ==
  "Error: Unable to process this query due to processing error."

Terminals == { i \in DOMAIN stream : stream[i].type \in {"completion", "error"} }

\* The consumer went away before the route closed the stream.
Disconnected == ~controllerOpen /\ streamEnd # "closed"

C2_DestroyedOnEveryExitPath ==
  pc = "done" =>
    \A d \in 1..Len(files) :
      CallsOf("upsert.ok", d) # {} => CallsOf("cleanupEmbeddings", d) # {}

\* C3: every match a query of document d returned is a segment produced
\* from document d.
C3_QueriesSeeOnlyOwnSegments ==
  \A d \in 1..Len(files) :
    \A a \in 1..Len(AnswersOf(d)) :
      LET matches == AnswersOf(d)[a].debugInfo.relevantChunks
      IN  \A r \in 1..Len(matches) : matches[r].metadata.text.doc = d

\* C4: the session ids derived so far for two documents with distinct
\* filenames are distinct.
C4_SessionIdsDistinct ==
  \A i, j \in 1..fileIdx :
    files[i].name # files[j].name => SessionOf(i) # SessionOf(j)

\* C5 as stated: a finished run's stream ends with exactly one terminal
\* object, a completion when parseDocuments returned and an error when it
\* threw.
C5_ExactlyOneTerminal ==
  pc = "done" =>
    /\ Cardinality(Terminals) = 1
    /\ Len(stream) \in Terminals
    /\ stream[Len(stream)].type
         = (IF outcome = "returned" THEN "completion" ELSE "error")

\* C5 as amended: a stream holds at most one terminal object, nothing is
\* written after it, it is a completion when parseDocuments returned and an
\* error when it threw; a finished run's stream holds one exactly when the
\* consumer had not gone away before parseDocuments settled.
C5_OneTerminalUnlessDisconnected ==
  /\ Cardinality(Terminals) <= 1
  /\ \A i \in Terminals :
       /\ i = Len(stream)
       /\ pc = "done"
       /\ stream[i].type
            = (IF outcome = "returned" THEN "completion" ELSE "error")
  /\ pc = "done" => (Terminals # {} <=> ~Disconnected)

\* A finished run whose stream ends with the error object, after the
\* "error" progress update of parseDocuments.
C5_Witness ==
  /\ pc = "done"
  /\ outcome = "threw"
  /\ Len(stream) > 1
  /\ stream[Len(stream)].type = "error"
  /\ stream[Len(stream) - 1].type = "progress"
  /\ stream[Len(stream) - 1].step = "error"

\* C6: a completion object carries every input document's Answers, in input
\* order, and the debug traces.
C6_CompletionCarriesAnswers ==
  \A i \in DOMAIN stream :
    stream[i].type = "completion" =>
      /\ "results" \in DOMAIN stream[i].results
      /\ stream[i].results.results = fileResults
      /\ Len(fileResults) = Len(files)
      /\ \A d \in 1..Len(files) : fileResults[d].filename = files[d].name
      /\ stream[i].results.debugInfo = debugInfo

\* The texts of the segments passed to populate.
SegmentTexts == { processedChunks[i].text : i \in DOMAIN processedChunks }

\* C7: when populate is called for a document, every slice of the document
\* has been issued to extraction, the segments passed are exactly those of
\* the slices that succeeded, each once, and a run only ever throws for a
\* failed split or a failed populate, never for a failed slice.
C7_SliceFailureIsolated ==
  /\ pc \in {"upsert", "settle"} =>
       /\ \A j \in 1..Len(fileChunksArray[fileIdx]) :
            \E i \in CallsOf("processPDFChunk", fileIdx) : calls[i].arg = j - 1
       /\ \A t \in SegmentTexts :
            /\ t.doc = fileIdx
            /\ \E i \in CallsOf("slice.result", fileIdx) :
                 calls[i].arg.chunk = t.chunk /\ t.paragraph < calls[i].arg.n
       /\ \A i \in CallsOf("slice.result", fileIdx) :
            \A p \in 0..(calls[i].arg.n - 1) :
              Cardinality({ x \in DOMAIN processedChunks :
                processedChunks[x].text =
                  [ doc |-> fileIdx, chunk |-> calls[i].arg.chunk,
                    paragraph |-> p ] }) = 1
  /\ outcome = "threw" =>
       calls[Len(calls)].op \in {"createPDFChunks.throw",
                                 "storeEmbeddings.throw"}

\* Populate is called for a three-slice document whose first batch had a
\* failed slice and whose second batch succeeded with a segment.
C7_Witness ==
  /\ pc \in {"upsert", "settle"}
  /\ Len(fileChunksArray[fileIdx]) > BATCH_SIZE
  /\ \E i \in CallsOf("slice.null", fileIdx) : calls[i].arg < BATCH_SIZE
  /\ \E i \in CallsOf("slice.result", fileIdx) :
       calls[i].arg.chunk >= BATCH_SIZE /\ calls[i].arg.n > 0
  /\ processedChunks # <<>>

\* C8: every document result holds one Answer per query, in query order;
\* the Answer of a query that threw is the placeholder with confidence 0;
\* and a document whose populate returned has its result once its queries
\* are over.
C8_OneAnswerPerQuery ==
  /\ \A d \in 1..Len(fileResults) :
       /\ fileResults[d].filename = files[d].name
       /\ Len(fileResults[d].answers) = Len(queries)
       /\ \A q \in 1..Len(queries) :
            fileResults[d].answers[q].query = queries[q]
  /\ \A d \in 1..Len(files) :
       /\ Populated(d) /\ (d < fileIdx \/ pc \in {"cleanup", "done"})
            => d <= Len(fileResults)
       /\ \A q \in 1..Len(AnswersOf(d)) : AnswersOf(d)[q].query = queries[q]
       /\ \A i \in CallsOf("search.throw", d)
                     \cup CallsOf("answerQuestion.throw", d) :
            /\ calls[i].arg <= Len(AnswersOf(d))
            /\ AnswersOf(d)[calls[i].arg].answer = PlaceholderText
            /\ AnswersOf(d)[calls[i].arg].confidence = 0

\* A document result whose first Answer is the placeholder of a query that
\* threw and whose second Answer is a synthesized one.
C8_Witness ==
  \E d \in 1..Len(fileResults) :
    /\ Len(fileResults[d].answers) = 2
    /\ fileResults[d].answers[1].answer = PlaceholderText
    /\ fileResults[d].answers[2].answer = "answer"
    /\ CallsOf("search.throw", d) \cup CallsOf("answerQuestion.throw", d) # {}

\* C9: the Answer of a query whose retrieval returned zero matches has
\* confidence 0 and an empty list of sources.
C9_ZeroMatchesEmptySources ==
  \A d \in 1..Len(files) :
    \A i \in CallsOf("search.ok", d) :
      (calls[i].arg.matched = 0 /\ calls[i].arg.query <= Len(AnswersOf(d)))
        => /\ AnswersOf(d)[calls[i].arg.query].confidence = 0
           /\ AnswersOf(d)[calls[i].arg.query].sources = <<>>

\* C10: the confidence of a synthesized Answer is the score the index gave
\* the top match, 0 when there was no match or the top match had no score,
\* and its sources are the processed document alone.
C10_ConfidenceIsTopScore ==
  \A d \in 1..Len(files) :
    \A i \in CallsOf("search.ok", d) :
      LET q == calls[i].arg.query
      IN  (q <= Len(AnswersOf(d)) /\ AnswersOf(d)[q].answer = "answer")
            => /\ AnswersOf(d)[q].confidence =
                    (IF calls[i].arg.matched = 0 \/ calls[i].arg.top = NoScore
                     THEN 0 ELSE calls[i].arg.top[1])
               /\ AnswersOf(d)[q].sources = << files[d].name >>

\* A synthesized Answer over two matches whose confidence is the positive
\* score of the first.
C10_Witness ==
  \E d \in 1..Len(files) :
    \E q \in 1..Len(AnswersOf(d)) :
      LET a == AnswersOf(d)[q]
      IN  /\ a.answer = "answer"
          /\ Len(a.debugInfo.relevantChunks) >= 2
          /\ a.confidence > 0
          /\ a.confidence = a.debugInfo.relevantChunks[1].score
          /\ a.confidence # a.debugInfo.relevantChunks[2].score

\* The slice a call of the log is about.
SliceOfCall(c) == IF c.op = "slice.result" THEN c.arg.chunk ELSE c.arg

\* The log positions up to p at which slice j of document d was started.
Started(d, j, p) ==
  { i \in 1..p : /\ calls[i].op = "processPDFChunk"
                 /\ calls[i].doc = d
                 /\ calls[i].arg = j }

\* The log positions up to p at which the callback of slice j of document d
\* returned, with a result or with null.
Finished(d, j, p) ==
  { i \in 1..p : /\ calls[i].op \in {"slice.result", "slice.null"}
                 /\ calls[i].doc = d
                 /\ SliceOfCall(calls[i]) = j }

\* The slices of document d in flight after the p first calls of the log.
InFlight(d, p) ==
  { j \in 0..(MaxSlices - 1) : Started(d, j, p) # {} /\ Finished(d, j, p) = {} }

\* C11: at every moment at most BATCH_SIZE slices of a document are in
\* flight, and a slice of a later batch is started only after every slice of
\* the earlier batches has finished, with a result or with null.
C11_BoundedSliceConcurrency ==
  \A d \in 1..Len(files) :
    /\ Cardinality(InFlight(d, Len(calls))) <= BATCH_SIZE
    /\ \A i \in CallsOf("processPDFChunk", d) :
         \A j \in 0..(calls[i].arg - 1) :
           (j \div BATCH_SIZE) < (calls[i].arg \div BATCH_SIZE)
             => Finished(d, j, i - 1) # {}

\* A slice of the second batch of a document is in flight; in the first
\* batch, whose two slices were in flight together, one slice failed and one
\* succeeded.
C11_Witness ==
  \E d \in 1..Len(files) :
    /\ BATCH_SIZE \in InFlight(d, Len(calls))
    /\ \E p \in 1..Len(calls) : Cardinality(InFlight(d, p)) = BATCH_SIZE
    /\ \E i \in CallsOf("slice.null", d) : calls[i].arg < BATCH_SIZE
    /\ \E i \in CallsOf("slice.result", d) : calls[i].arg.chunk < BATCH_SIZE

\* The result call of slice j of document d in the log, if there is one.
ResultOf(d, j) ==
  { i \in CallsOf("slice.result", d) : calls[i].arg.chunk = j }

\* The segment texts of the slices of document d from slice j on: slice by
\* slice in index order, and within a slice in ordinal order.
RECURSIVE ExpectedTexts(_, _)
ExpectedTexts(d, j) ==
  IF j >= Len(fileChunksArray[d]) THEN <<>>
  ELSE (IF ResultOf(d, j) = {} THEN <<>>
        ELSE LET n == calls[CHOOSE i \in ResultOf(d, j) : TRUE].arg.n
             IN  [ idx \in 1..n |->
                     [ doc |-> d, chunk |-> j, paragraph |-> idx - 1 ] ])
       \o ExpectedTexts(d, j + 1)

\* The debug traces of the documents from d on, up to the one in progress:
\* document by document, and the slices that succeeded in index order.
RECURSIVE ExpectedTraces(_, _)
ExpectedTraces(d, j) ==
  IF d > fileIdx THEN <<>>
  ELSE IF j >= Len(fileChunksArray[d]) THEN ExpectedTraces(d + 1, 0)
  ELSE (IF ResultOf(d, j) = {} THEN <<>>
        ELSE << [ doc |-> d, chunk |-> j ] >>)
       \o ExpectedTraces(d, j + 1)

\* C12: when populate is called for a document, the segments passed to it
\* are those of the slices that succeeded, in slice index order and within a
\* slice in ordinal order, and the debug traces are those of the slices that
\* succeeded, in slice index order: both lists are fixed by the outcome of
\* each slice and do not depend on the order in which the slices finished.
C12_OrderIndependentOfCompletion ==
  pc \in {"upsert", "settle"} =>
    /\ [ i \in 1..Len(processedChunks) |-> processedChunks[i].text ]
         = ExpectedTexts(fileIdx, 0)
    /\ [ i \in 1..Len(debugInfo) |-> debugInfo[i].rawExtraction ]
         = ExpectedTraces(1, 0)

\* Populate is called with the segments of two slices of one batch, each of
\* several paragraphs, of which the second slice finished first.
C12_Witness ==
  /\ pc \in {"upsert", "settle"}
  /\ \E i, j \in CallsOf("slice.result", fileIdx) :
       /\ i < j
       /\ calls[i].arg.chunk = 1
       /\ calls[j].arg.chunk = 0
       /\ calls[i].arg.n > 1
       /\ calls[j].arg.n > 1
  /\ Len(processedChunks) >= 4

\* The log positions at which query q of document d ended: answerQuestion
\* returned, or the retrieval or the synthesis threw.
QueryEnded(d, q) ==
  { i \in DOMAIN calls :
      /\ calls[i].op \in {"answerQuestion.ok", "answerQuestion.throw",
                          "search.throw"}
      /\ calls[i].doc = d
      /\ calls[i].arg = q }

\* C13: the retrieval calls of a document are issued in query order, each
\* once; the call for a query is issued only after the query before it has
\* ended and its Answer has been pushed, so that at most one query of a
\* document is in flight.
C13_QueriesSequential ==
  \A d \in 1..Len(files) :
    LET searches == CallsOf("searchRelevantChunks", d)
        ended == UNION { QueryEnded(d, q) : q \in 1..Len(queries) }
    IN  /\ \A i \in searches :
             /\ calls[i].arg =
                  Cardinality({ j \in searches : j <= i })
             /\ calls[i].arg > 1 =>
                  \E e \in QueryEnded(d, calls[i].arg - 1) : e < i
             /\ Len(AnswersOf(d)) >= calls[i].arg - 1
        /\ Cardinality(searches) - Cardinality(ended) \in {0, 1}

\* The retrieval call of the second query of a document is in flight, after
\* the first query has got its synthesized Answer.
C13_Witness ==
  /\ pc = "search"
  /\ queryIdx = 2
  /\ Len(fileAnswers) = 1
  /\ fileAnswers[1].answer = "answer"
  /\ QueryEnded(fileIdx, 1) # {}
  /\ QueryEnded(fileIdx, 2) = {}

\* The calls that extract, populate or query for a document.
DocumentOps ==
  { "processPDFChunk", "generateEmbeddings", "storeEmbeddings", "upsert",
    "searchRelevantChunks", "answerQuestion" }

\* The log positions at which the destroy call of document d returned.
DestroyReturned(d) == CallsOf("reset.ok", d) \cup CallsOf("reset.throw", d)

\* No extraction, populate or query call of a document is issued before the
\* destroy call of the document before it has returned.
DocumentsSequential ==
  \A i \in DOMAIN calls :
    (calls[i].op \in DocumentOps /\ calls[i].doc > 1)
      => \E r \in DestroyReturned(calls[i].doc - 1) : r < i

\* The index sessions that hold vectors.
LiveSessions == { s \in DOMAIN vectorIndex : vectorIndex[s] # emptyNamespace }

\* C14 as stated: the documents are processed one after the other, and at
\* most one index session holds vectors at any time.
C14_OneLiveSession ==
  /\ DocumentsSequential
  /\ Cardinality(LiveSessions) <= 1

\* C14 as amended: the documents are processed one after the other; a
\* session that holds vectors is the session of the document in progress or
\* the session of a document whose destroy call failed, and at most one
\* session holds vectors as long as no destroy call has failed.
C14_OneLiveSessionUnlessDestroyFailed ==
  /\ DocumentsSequential
  /\ \A s \in LiveSessions :
       \/ s = fileSessionId
       \/ \E d \in 1..Len(files) :
            SessionOf(d) = s /\ CallsOf("reset.throw", d) # {}
  /\ (\A d \in 1..Len(files) : CallsOf("reset.throw", d) = {})
       => Cardinality(LiveSessions) <= 1

\* The second document is being queried on its populated session, after the
\* destroy call of the first document has emptied the first one's session.
C14_Witness ==
  /\ fileIdx = 2
  /\ pc = "search"
  /\ CallsOf("reset.ok", 1) # {}
  /\ SessionOf(1) # SessionOf(2)
  /\ CallsOf("upsert.ok", 1) # {}
  /\ vectorIndex[SessionOf(1)] = emptyNamespace
  /\ vectorIndex[fileSessionId] # emptyNamespace

\* The step tag of an object of the stream.  The "error" updates are told
\* apart by what they carry: a slice's has a chunk id, a query's a filename
\* only, and the one of the catch block of parseDocuments neither.
Tag(e) ==
  IF e.type = "completion" THEN "completion.object"
  ELSE IF e.type = "error" THEN "error.object"
  ELSE IF e.step # "error" THEN e.step
  ELSE IF e.chunkId # NoChunk THEN "error.slice"
  ELSE IF e.filename # NoName THEN "error.query"
  ELSE "error.run"

SliceTags == { "processing", "embedding_prep", "chunk_processed" }

\* The tags that may come next after tag t.  With lenient = FALSE this is the
\* state machine as stated, in which "error" ends the run; with lenient =
\* TRUE the "error" update of a failed slice is a slice event and the
\* "error" update of a failed query closes the query.
Follows(t, lenient) ==
  LET sliceEvents == SliceTags \cup (IF lenient THEN {"error.slice"} ELSE {})
      queryOver == { "answering", "processing_file", "completed" }
  IN  CASE t = "starting" -> { "chunking" }
        [] t = "chunking" -> { "chunking", "chunks_created", "error.run" }
        [] t = "chunks_created" -> { "processing_file" }
        [] t = "processing_file" -> { "processing" }
        [] t \in { "processing", "embedding_prep" } -> sliceEvents
        [] t = "chunk_processed" -> sliceEvents \cup { "embeddings_ready" }
        [] t = "error.slice" ->
             IF lenient THEN sliceEvents \cup { "embeddings_ready" } ELSE {}
        [] t = "embeddings_ready" -> { "storing_embeddings" }
        [] t = "storing_embeddings" -> { "embeddings_stored", "error.run" }
        [] t = "embeddings_stored" -> { "answering" }
        [] t = "answering" ->
             { "question_answered" }
               \cup (IF lenient THEN { "error.query" } ELSE {})
        [] t = "question_answered" -> queryOver
        [] t = "error.query" -> IF lenient THEN queryOver ELSE {}
        [] t = "completed" -> { "completion.object" }
        [] t = "error.run" -> { "error.object" }
        [] OTHER -> {}

\* Every object of the stream is followed by one its tag allows, and the
\* updates from one "processing_file" to the next carry that file's name.
StepOrder(lenient) ==
  /\ stream # <<>> => Tag(stream[1]) = "starting"
  /\ \A i \in 1..(Len(stream) - 1) :
       /\ Tag(stream[i + 1]) \in Follows(Tag(stream[i]), lenient)
       /\ ( /\ stream[i].filename # NoName
            /\ stream[i + 1].filename # NoName
            /\ Tag(stream[i]) # "chunking"
            /\ Tag(stream[i + 1]) # "processing_file" )
            => stream[i + 1].filename = stream[i].filename

\* Populate is called at most once per document and has returned before the
\* document's first retrieval call, a run that returns has populated every
\* document, and parseDocuments returns (after its "completed" update) only
\* when the destroy call of the last document has returned.
PopulateOnceThenQueries ==
  /\ \A d \in 1..Len(files) :
       /\ Cardinality(CallsOf("storeEmbeddings", d)) <= 1
       /\ \A i \in CallsOf("searchRelevantChunks", d) :
            \E r \in CallsOf("storeEmbeddings.return", d) : r < i
       /\ outcome = "returned" =>
            Cardinality(CallsOf("storeEmbeddings", d)) = 1
  /\ ( \/ outcome = "returned"
       \/ \E i \in DOMAIN stream : Tag(stream[i]) = "completed" )
       => DestroyReturned(Len(files)) # {}

\* C15 as stated: the step tags follow the state machine starting, chunking,
\* chunks_created, then per document processing_file, slice events,
\* embeddings_ready, storing_embeddings, embeddings_stored, and answering and
\* question_answered in alternation, then completed; populate happens once
\* per document before its first retrieval call, and completed comes after
\* the last destroy call.
C15_StepOrderAsStated ==
  /\ StepOrder(FALSE)
  /\ PopulateOnceThenQueries

\* C15 as amended: the same order, in which the "error" update of a failed
\* slice counts among the slice events and the "error" update of a failed
\* query takes the place of its question_answered.
C15_StepOrderWithErrors ==
  /\ StepOrder(TRUE)
  /\ PopulateOnceThenQueries

\* A run that has returned and written its completion object, with the
\* "error" update of a failed slice and the "error" update of a failed query
\* in its stream.
C15_Witness ==
  /\ outcome = "returned"
  /\ stream # <<>>
  /\ Tag(stream[Len(stream)]) = "completion.object"
  /\ \E i \in DOMAIN stream : Tag(stream[i]) = "error.slice"
  /\ \E i \in DOMAIN stream : Tag(stream[i]) = "error.query"
  /\ \E i \in DOMAIN stream : Tag(stream[i]) = "question_answered"

\* The calls that start remote work: extraction, embedding, writes and
\* queries of the vector index, answer synthesis.
WorkOps ==
  { "processPDFChunk", "generateEmbeddings", "upsert",
    "searchRelevantChunks", "answerQuestion" }

\* C16: once the consumer has gone away, no step of the server starts an
\* extraction, embedding, vector-index write or query, or answer-synthesis
\* call.
C16_AbortStopsRemoteCalls ==
  [][ Disconnected =>
        \A i \in (Len(calls) + 1)..Len(calls') : calls'[i].op \notin WorkOps
    ]_vars

\* C17: from the moment the reader's abort controller has fired, the reader
\* does not invoke its error callback, whether the abort interrupts the
\* fetch or the read loop or comes after the stream has ended.
C17_AbortInvokesNoErrorCallback ==
  [][ consumer'.aborted => consumer'.onError = consumer.onError ]_vars

\* The reader has returned from an abort that interrupted the read loop
\* after some events, with lines of the body still to come, and its error
\* callback has not been invoked.
C17_Witness ==
  /\ consumer.aborted
  /\ consumer.at = "returned"
  /\ consumer.events # <<>>
  /\ consumer.response.lines # <<>>
  /\ ~consumer.isProcessing
  /\ consumer.onError = <<>>

\* The pipeline throws only for a remote call that failed, and a run that
\* returned has issued, for every document, the extraction call of every
\* slice, one populate, the retrieval call of every query and one destroy
\* call: the same calls whether or not the consumer went away.
PipelineUnaffectedByConsumer ==
  /\ outcome = "threw" =>
       calls[Len(calls)].op \in {"createPDFChunks.throw",
                                 "storeEmbeddings.throw"}
  /\ outcome = "returned" =>
       \A d \in 1..Len(files) :
         /\ \A j \in 1..Len(fileChunksArray[d]) :
              \E i \in CallsOf("processPDFChunk", d) : calls[i].arg = j - 1
         /\ Cardinality(CallsOf("storeEmbeddings", d)) = 1
         /\ \A q \in 1..Len(queries) :
              \E i \in CallsOf("searchRelevantChunks", d) : calls[i].arg = q
         /\ Cardinality(CallsOf("cleanupEmbeddings", d)) = 1

\* C18: an enqueue that fails because the consumer has gone away never
\* escapes the route's start callback, whether it is the enqueue of a
\* progress, of the completion or of the error object, and it leaves the
\* pipeline's calls and the destroy calls as they are.
C18_EmissionFailureSwallowed ==
  /\ streamEnd # "rejected"
  /\ PipelineUnaffectedByConsumer

\* The log positions at which a run-level failure was thrown.
RunLevelThrows ==
  { i \in DOMAIN calls :
      calls[i].op \in {"createPDFChunks.throw", "storeEmbeddings.throw"} }

\* C19: when the reset of document d's destroy call throws, the document's
\* result with one Answer per query is kept, the next document's first
\* extraction call is issued in the same step, and the run throws only for
\* a later failed populate: with no such failure it ends returned, with the
\* "completed" update and the completion object on a stream whose consumer
\* is still there.
C19_DestroyFailureNonFatal ==
  \A d \in 1..Len(files) :
    \A i \in CallsOf("reset.throw", d) :
      /\ d <= Len(fileResults)
      /\ fileResults[d].filename = files[d].name
      /\ Len(fileResults[d].answers) = Len(queries)
      /\ d < Len(files) =>
           /\ i < Len(calls)
           /\ calls[i + 1].op = "processPDFChunk"
           /\ calls[i + 1].doc = d + 1
      /\ outcome = "threw" =>
           /\ calls[Len(calls)].op = "storeEmbeddings.throw"
           /\ calls[Len(calls)].doc > d
      /\ (pc = "done" /\ RunLevelThrows = {}) =>
           /\ outcome = "returned"
           /\ Len(fileResults) = Len(files)
           /\ ~Disconnected =>
                /\ Len(stream) >= 2
                /\ Tag(stream[Len(stream)]) = "completion.object"
                /\ Tag(stream[Len(stream) - 1]) = "completed"

\* A run of two documents that returned and wrote its completion object
\* although the reset of the first document's destroy call threw.
C19_Witness ==
  /\ pc = "done"
  /\ outcome = "returned"
  /\ Len(files) = 2
  /\ CallsOf("reset.throw", 1) # {}
  /\ CallsOf("reset.ok", 2) # {}
  /\ Len(fileResults) = 2
  /\ stream # <<>>
  /\ Tag(stream[Len(stream)]) = "completion.object"

\* The primary range of the k-th slice the splitter pushed.
PrimaryRange(k) == split.slices[k].start .. (split.slices[k].end - 1)

\* C20: when splitPdfChunks returns, for its page count N, chunk size C and
\* overlap O, the primary ranges [start, min(start + C, N)) of its slices
\* are non-empty, pairwise disjoint and cover [0, N), and every page of
\* [0, N) is among the pages of at least one slice; the slices are those of
\* splitPdfChunks(N, C, O).
C20_PrimaryRangesPartition ==
  split.at = "returned" =>
    LET n == Len(split.slices)
        pagesOf(k) == Range(split.slices[k].pages)
    IN  /\ \A k \in 1..n :
             /\ split.slices[k].end =
                  Min(split.slices[k].start + split.chunkSize, split.total)
             /\ PrimaryRange(k) # {}
             /\ PrimaryRange(k) \subseteq pagesOf(k)
             /\ pagesOf(k) \subseteq 0..(split.total - 1)
        /\ \A k, l \in 1..n :
             k # l => PrimaryRange(k) \cap PrimaryRange(l) = {}
        /\ UNION { PrimaryRange(k) : k \in 1..n } = 0..(split.total - 1)
        /\ \A page \in 0..(split.total - 1) :
             \E k \in 1..n : page \in pagesOf(k)
        /\ [ k \in 1..n |-> split.slices[k].pages ]
             = splitPdfChunks(split.total, split.chunkSize, split.overlap)

\* The splitter has returned three slices or more for an overlap larger
\* than the chunk size and a page count that is no multiple of the chunk
\* size.
C20_Witness ==
  /\ split.at = "returned"
  /\ Len(split.slices) >= 3
  /\ split.overlap > split.chunkSize
  /\ split.chunkSize > 1
  /\ split.total % split.chunkSize # 0

\* The contiguous interval [lo, hi) as an ascending page list.
Interval(lo, hi) == [ i \in 1..(hi - lo) |-> lo + i - 1 ]

Max(a, b) == IF a > b THEN a ELSE b

\* C21: at every point of splitPdfChunks, for its page count N, chunk size
\* C > 0 and overlap O >= 0 (O >= C included), the page list copied into
\* the slice of the primary range [start, end) is ascending, has no
\* duplicates, and is the contiguous interval
\* [max(0, start - O), min(N, end + O)); the k-th slice is a function of
\* (N, C, O) alone, so equal inputs give equal slices.
C21_SlicePagesContiguous ==
  \A k \in 1..Len(split.slices) :
    LET s == split.slices[k]
    IN  /\ \A i, j \in DOMAIN s.pages : i < j => s.pages[i] < s.pages[j]
        /\ s.pages = Interval(Max(0, s.start - split.overlap),
                              Min(split.total, s.end + split.overlap))
        /\ s.start = (k - 1) * split.chunkSize
        /\ s.end = Min(k * split.chunkSize, split.total)

\* An inner slice whose overlap is at least the chunk size and reaches
\* fully to both sides has been pushed, and the loop has returned.
C21_Witness ==
  /\ split.at = "returned"
  /\ split.overlap >= split.chunkSize
  /\ \E k \in 1..Len(split.slices) :
       /\ split.slices[k].start - split.overlap > 0
       /\ split.slices[k].end + split.overlap < split.total
       /\ Len(split.slices[k].pages) =
            split.chunkSize + 2 * split.overlap

\* The page lists of the slices returned so far.
PageSets == [ k \in 1..Len(split.slices) |-> split.slices[k].pages ]

\* C22: when splitPdfChunks returns for a 12-page document with chunk size
\* 4 and overlap 1, it has produced exactly 3 slices whose page lists are
\* [0,5), [3,9) and [7,12), in that order.
C22_TwelvePagesThreeSlices ==
  ( /\ split.at = "returned"
    /\ split.total = 12
    /\ split.chunkSize = 4
    /\ split.overlap = 1 )
  => PageSets = << <<0, 1, 2, 3, 4>>, <<3, 4, 5, 6, 7, 8>>,
                   <<7, 8, 9, 10, 11>> >>

\* splitPdfChunks has returned for 12 pages with the configured chunk size
\* and overlap.
C22_Witness ==
  /\ split.at = "returned"
  /\ split.total = 12
  /\ split.chunkSize = defaultChunkSize /\ split.chunkSize = 4
  /\ split.overlap = defaultOverlap /\ split.overlap = 1
  /\ Len(split.slices) = 3

\* C23: createPDFChunks decides to split exactly when the page count is
\* strictly greater than the configured threshold; when it returns for a
\* document at or below the threshold it has produced exactly one slice,
\* which holds every page of the document and carries chunkIndex 0 and
\* totalChunks 1; when it returns for a split document its slices are those
\* of splitPdfChunks, and slice i (from 0) carries chunkIndex i and
\* totalChunks equal to the number of slices.
C23_SplitOnlyAboveThreshold ==
  applied.fn = "createPDFChunks" =>
    LET n == applied.file.pages
        chunks == applied.chunks
    IN  /\ applied.at \in {"counted", "returned"} =>
             (applied.needsSplitting <=> n > splitThreshold)
        /\ (applied.at = "returned" /\ n <= splitThreshold) =>
             /\ Len(chunks) = 1
             /\ chunks[1].metadata.pdfBuffer = Interval(0, n)
             /\ chunks[1].metadata.chunkIndex = 0
             /\ chunks[1].metadata.totalChunks = 1
        /\ (applied.at = "returned" /\ n > splitThreshold) =>
             /\ Len(chunks) = Len(splitPdfChunks(n, defaultChunkSize,
                                                 defaultOverlap))
             /\ \A i \in 1..Len(chunks) :
                  /\ chunks[i].metadata.chunkIndex = i - 1
                  /\ chunks[i].metadata.totalChunks = Len(chunks)

\* createPDFChunks has returned several slices for a document above the
\* threshold.
C23_Witness ==
  /\ applied.fn = "createPDFChunks"
  /\ applied.at = "returned"
  /\ applied.file.pages > splitThreshold
  /\ applied.needsSplitting
  /\ Len(applied.chunks) = 3
  /\ applied.chunks[3].metadata.chunkIndex = 2

\* totalSlices x 2 + queries x documents + 2, totalSlices being the sum of
\* the slice counts of all documents.
PublishedTotal ==
  LET totalSlices ==
        SeqSum([ d \in 1..Len(fileChunksArray) |-> Len(fileChunksArray[d]) ])
  IN  totalSlices * 2 + Len(queries) * Len(files) + 2

\* C24: the `chunks_created` event on the stream carries a total step count
\* of totalSlices x 2 + queries x documents + 2 (the configured multiplier
\* and base), and every later object of the stream, progress, completion or
\* error, carries that same total; so does the route's counter from then on.
C24_TotalStepsPublishedOnce ==
  /\ totalStepsMultiplier = 2 /\ baseStepsCount = 2
  /\ \A i \in DOMAIN stream :
       stream[i].step = "chunks_created" =>
         /\ stream[i].totalSteps = PublishedTotal
         /\ \A j \in (i + 1)..Len(stream) :
              stream[j].totalSteps = PublishedTotal
         /\ totalSteps = PublishedTotal

\* A run over two documents, one of them split, with two queries has
\* published a total that differs from the route's first estimate, and its
\* completion object carries that total.
C24_Witness ==
  /\ Len(files) = 2 /\ Len(queries) = 2
  /\ \E d \in 1..Len(fileChunksArray) : Len(fileChunksArray[d]) > 1
  /\ PublishedTotal # Len(files) * 2 + Len(queries) + 2
  /\ \E i \in DOMAIN stream : stream[i].step = "chunks_created"
  /\ stream # <<>>
  /\ stream[Len(stream)].type = "completion"
  /\ stream[Len(stream)].totalSteps = PublishedTotal

\* The characters that end a word.
WordEnds == whitespace \cup { "?", ".", ",", "!" }

\* The first word of a string, in lower case.
RECURSIVE firstWord(_)
firstWord(str) ==
  IF str = <<>> \/ Head(str) \in WordEnds THEN <<>>
  ELSE toLowerCase(<<Head(str)>>) \o firstWord(Tail(str))

\* The string contains a configured condition keyword, in any case.
ContainsKeyword(str) ==
  \E k \in 1..Len(conditionKeywords) :
    includes(toLowerCase(str), conditionKeywords[k])

\* The first word of the string is an interrogative word.
StartsWithInterrogative(str) ==
  \E w \in 1..Len(questionWords) : firstWord(str) = questionWords[w]

\* The last character of the string is a question mark.
EndsWithQuestionMark(str) == str # <<>> /\ str[Len(str)] = "?"

\* C25: detectQueryType returns `condition` exactly when the query contains
\* a configured condition keyword (in any case), does not start with an
\* interrogative word and does not end with a question mark, and
\* `question` otherwise; the result is a function of the query and the
\* keyword list.
C25_ConditionExactlyWhen ==
  (applied.fn = "detectQueryType" /\ applied.at # "called") =>
    /\ applied.queryType \in {"condition", "question"}
    /\ applied.queryType = "condition" <=>
         /\ ContainsKeyword(applied.input)
         /\ ~StartsWithInterrogative(applied.input)
         /\ ~EndsWithQuestionMark(applied.input)

\* C26: a query that contains a condition keyword, has no trailing question
\* mark and whose first word is not an interrogative word is classified
\* `condition`, also when its first word begins with the letters of an
\* interrogative word (`Werden`, `Wenn`).
C26_PrefixOfFirstWordIsNoQuestion ==
  ( /\ applied.fn = "detectQueryType" /\ applied.at # "called"
    /\ ContainsKeyword(applied.input)
    /\ ~EndsWithQuestionMark(applied.input)
    /\ ~StartsWithInterrogative(applied.input) )
  => applied.queryType = "condition"

\* C27: for every query, answerQuestion builds the condition prompt if and
\* only if detectQueryType classified the query as `condition`.
C27_PromptAgreesWithType ==
  (applied.fn = "detectQueryType" /\ applied.at = "prompted") =>
    (applied.prompt = "condition" <=> applied.queryType = "condition")

\* The chunks returned that are sub-chunks of an over-length section.
SubChunks == SelectSeq(applied.finalChunks, LAMBDA c : c.sentences # <<>>)

\* C28: when splitTextIntoParagraphs returns, for any text, none of its
\* chunks is empty and none has a text, before the category markers,
\* shorter than the configured minimum length.
C28_NoShortChunk ==
  (applied.fn = "splitTextIntoParagraphs" /\ applied.at = "returned") =>
    \A k \in 1..Len(applied.finalChunks) :
      /\ applied.finalChunks[k].text # <<>>
      /\ length(applied.finalChunks[k].text) >= minTextLength

\* The sentence loop has pushed a chunk shorter than the minimum, and the
\* function has returned other chunks.
C28_Witness ==
  /\ applied.fn = "splitTextIntoParagraphs" /\ applied.at = "returned"
  /\ \E k \in 1..Len(applied.chunks) :
       length(applied.chunks[k].text) < minTextLength
  /\ applied.finalChunks # <<>>

\* C29: of two consecutive sub-chunks returned for one over-length section,
\* the later one begins with the last two sentences of the earlier one:
\* the two share those two sentences and no others.
C29_OverlapIsLastTwoSentences ==
  (applied.fn = "splitTextIntoParagraphs" /\ applied.at = "returned") =>
    \A k \in 1..(Len(SubChunks) - 1) :
      LET earlier == SubChunks[k].sentences
          later == SubChunks[k + 1].sentences
      IN  SubChunks[k].section = SubChunks[k + 1].section =>
            /\ Len(later) >= Len(lastTwo(earlier))
            /\ SubSeq(later, 1, Len(lastTwo(earlier))) = lastTwo(earlier)
            /\ Range(earlier) \cap Range(later) = Range(lastTwo(earlier))

\* C30: every sub-chunk returned for an over-length section has a text,
\* before the category markers, of at most the configured maximum chunk
\* length, whatever the lengths of the sentences.
C30_SubChunkWithinMaximum ==
  (applied.fn = "splitTextIntoParagraphs" /\ applied.at = "returned") =>
    \A k \in 1..Len(SubChunks) :
      length(SubChunks[k].text) <= maxSentenceChunkLength

\* The parts of a text between its blank lines (a newline, whitespace, a
\* newline), without the whitespace around them.
BlankLineSections(text) ==
  LET parts == splitParagraphs(trim(text))
  IN  [ k \in 1..Len(parts) |-> trim(parts[k]) ]

\* C31: when splitTextIntoParagraphs returns for a text of k >= 2 sections
\* separated by blank lines, each of a length between the minimum and the
\* maximum paragraph length, it returns k chunks, the k-th being the k-th
\* section kept whole.
C31_SectionsSplitOnBlankLines ==
  (applied.fn = "splitTextIntoParagraphs" /\ applied.at = "returned") =>
    LET secs == BlankLineSections(applied.text)
    IN  ( /\ Len(secs) >= 2
          /\ \A k \in 1..Len(secs) :
               /\ length(secs[k]) >= minTextLength
               /\ length(secs[k]) <= maxParagraphLength )
        => /\ Len(applied.finalChunks) = Len(secs)
           /\ \A k \in 1..Len(secs) :
                applied.finalChunks[k].text = normalizeText(secs[k])

\* a is b with some of its elements left out.
RECURSIVE IsSubsequence(_, _)
IsSubsequence(a, b) ==
  IF a = <<>> THEN TRUE
  ELSE IF b = <<>> THEN FALSE
  ELSE IF Head(a) = Head(b) THEN IsSubsequence(Tail(a), Tail(b))
  ELSE IsSubsequence(a, Tail(b))

\* The position in the text where a chunk begins: its section, and in the
\* section its first sentence.
FirstSentence(chunk) ==
  IF chunk.sentences = <<>> THEN 1 ELSE chunk.sentences[1]

\* C32: when splitTextIntoParagraphs returns, its chunks are in reading
\* order: of two chunks the earlier one does not begin after the later one
\* in the text (section by section, and in a section by first sentence),
\* and the chunks returned are the chunks pushed, in the order pushed,
\* without those that were dropped.
C32_ReadingOrderPreserved ==
  (applied.fn = "splitTextIntoParagraphs" /\ applied.at = "returned") =>
    /\ \A i, j \in 1..Len(applied.finalChunks) :
         i < j =>
           LET a == applied.finalChunks[i]
               b == applied.finalChunks[j]
           IN  \/ a.section < b.section
               \/ /\ a.section = b.section
                  /\ FirstSentence(a) <= FirstSentence(b)
    /\ IsSubsequence(applied.finalChunks, applied.chunks)

\* Three sub-chunks were pushed, the short one was dropped and the two
\* others, which begin at different sentences, were returned.
C32_Witness ==
  /\ applied.fn = "splitTextIntoParagraphs" /\ applied.at = "returned"
  /\ Len(applied.chunks) > Len(applied.finalChunks)
  /\ Len(applied.finalChunks) >= 2
  /\ FirstSentence(applied.finalChunks[1])
       < FirstSentence(applied.finalChunks[2])

\* MIME type and extension confirm PDF and the size is within the maximum.
ConfirmedPdf(entry) ==
  /\ entry.isFile
  /\ entry.type = "application/pdf"
  /\ entry.extension = ".pdf"
  /\ ~entry.oversize

\* C33: the files the ingest route passes to parseDocuments are files whose
\* MIME type and extension both confirm PDF and whose size is within the
\* configured maximum; a request with no non-empty question, or with no
\* such file, is answered with status 400 and parseDocuments, which makes
\* all remote calls, is not called.
C33_OnlyConfirmedPdfsReachPipeline ==
  applied.fn = "POST" =>
    /\ \A k \in 1..Len(applied.parseDocuments) :
         ConfirmedPdf(applied.parseDocuments[k])
    /\ ( /\ applied.at \in {"responded", "streaming"}
         /\ \/ \A k \in 1..Len(applied.form.questions) :
                 trim(applied.form.questions[k]) = <<>>
            \/ \A k \in 1..Len(applied.form.files) :
                 ~ConfirmedPdf(applied.form.files[k]) )
       => (applied.status = 400 /\ applied.parseDocuments = <<>>)

\* The characters of the body read so far.
Consumed ==
  SubSeq(encodeBody(applied.sent), 1,
         Len(encodeBody(applied.sent)) - Len(applied.body))

\* The number of lines that are complete in the characters read so far.
CompleteLines == Cardinality({ i \in 1..Len(Consumed) : Consumed[i] = "\n" })

\* C34: at every point of the read loop, however the body was cut into
\* reads, the events handled are the updates whose line is complete in the
\* characters read so far, each once and in sending order, and the buffer
\* holds the characters of the incomplete last line; when the loop ends
\* every update sent has been handled.
C34_LinesHandledOnceInOrder ==
  applied.fn = "reader" =>
    /\ applied.events = SubSeq(applied.sent, 1, CompleteLines)
    /\ applied.buffer =
         SubSeq(Consumed, 4 * CompleteLines + 1, Len(Consumed))
    /\ applied.at = "done" => applied.events = applied.sent

\* A read has ended inside the third update: the first two have been
\* handled and the part of the third is held back.
C34_Witness ==
  /\ applied.fn = "reader" /\ applied.at = "read"
  /\ Len(applied.events) = 2
  /\ Len(applied.buffer) = 2
  /\ applied.body # <<>>

\* Every slice of document d has failed.
AllSlicesFailed(d) ==
  /\ d <= Len(fileChunksArray)
  /\ Cardinality(CallsOf("slice.null", d)) = Len(fileChunksArray[d])

\* What C35 says of a document all of whose slices failed, but for the
\* confidence of its Answers: the failures are on the stream as progress
\* objects of step `error` for the document (while the consumer is there),
\* populate is called once the batches are over, with zero segments, and
\* does not throw; the document gets one Answer per query; its destroy call
\* is issued; and the next document's extraction starts when the destroy
\* call has returned, the run throwing only for another document.
FailedDocumentCarriesOn(d) ==
  /\ controllerOpen =>
       \A i \in CallsOf("slice.null", d) :
         \E e \in DOMAIN stream :
           /\ stream[e].type = "progress"
           /\ stream[e].step = "error"
           /\ stream[e].filename = files[d].name
           /\ stream[e].chunkId = <<files[d].name, calls[i].arg>>
  /\ (d < fileIdx \/ pc # "batch") => CallsOf("storeEmbeddings", d) # {}
  /\ \A i \in CallsOf("storeEmbeddings", d) : calls[i].arg = 0
  /\ CallsOf("upsert", d) = {}
  /\ CallsOf("storeEmbeddings.throw", d) = {}
  /\ (d < fileIdx \/ pc \in {"cleanup", "done"}) =>
       /\ d <= Len(fileResults)
       /\ Len(fileResults[d].answers) = Len(queries)
       /\ CallsOf("cleanupEmbeddings", d) # {}
  /\ (d < Len(files) /\ DestroyReturned(d) # {}) =>
       CallsOf("processPDFChunk", d + 1) # {}
  /\ outcome = "threw" =>
       /\ calls[Len(calls)].op = "storeEmbeddings.throw"
       /\ calls[Len(calls)].doc # d

\* C35: a document all of whose slices failed has the failures reported as
\* progress objects of step `error`, populate called with zero segments,
\* one Answer per query, each with confidence 0, its destroy call issued,
\* and the later documents processed.
C35_FailedDocumentIsolated ==
  \A d \in 1..Len(files) :
    AllSlicesFailed(d) =>
      /\ FailedDocumentCarriesOn(d)
      /\ \A q \in 1..Len(AnswersOf(d)) : AnswersOf(d)[q].confidence = 0

RECURSIVE Concat(_)
Concat(seqs) == IF seqs = <<>> THEN <<>> ELSE Head(seqs) \o Concat(Tail(seqs))

\* ceil(n / b)
CeilDiv(n, b) == (n + b - 1) \div b

\* C36: storeEmbeddings with n segments and batch size B sends upserts of
\* at least one and at most B vectors each, whose concatenation in order
\* is a prefix of the list of the n vectors, one per segment in order, with
\* pairwise distinct ids; when the loop is over it is the whole list, sent
\* in exactly ceil(n/B) upserts; the self-check runs only then, and
\* storeEmbeddings returns whether the self-check passed or failed; when an
\* upsert fails storeEmbeddings throws and the failed upsert is the last
\* one sent.
C36_UpsertsInBatches ==
  applied.fn = "storeEmbeddings" =>
    LET n == Len(applied.processedChunks)
        sent == Concat(applied.upserts)
    IN  /\ Len(applied.vectors) = n
        /\ \A k \in 1..n :
             applied.vectors[k].metadata.text = applied.processedChunks[k].text
        /\ \A k, l \in 1..n :
             k # l => applied.vectors[k].id # applied.vectors[l].id
        /\ \A b \in 1..Len(applied.upserts) :
             Len(applied.upserts[b]) \in 1..batchSize
        /\ Len(sent) <= n
        /\ sent = SubSeq(applied.vectors, 1, Len(sent))
        /\ applied.at \in {"testEmbeddingsStorage", "returned"} =>
             /\ sent = applied.vectors
             /\ Len(applied.upserts) = CeilDiv(n, batchSize)
        /\ applied.selfCheck # "none" => applied.at = "returned"
        /\ applied.at = "threw" =>
             /\ applied.upserts # <<>>
             /\ Len(applied.upserts) = applied.i \div batchSize + 1
             /\ Len(applied.upserts) <= CeilDiv(n, batchSize)

\* storeEmbeddings has returned after a failed self-check for a number of
\* segments that is not a multiple of the batch size, sent in several
\* upserts.
C36_Witness ==
  /\ applied.fn = "storeEmbeddings" /\ applied.at = "returned"
  /\ applied.selfCheck = "failed"
  /\ Len(applied.processedChunks) % batchSize # 0
  /\ Len(applied.upserts) >= 2

\* The run stopped at the run-level failure logged at position i of
\* document k: parseDocuments threw, nothing was called afterwards, no
\* extraction or query call exists for a later document (for any document
\* when the split failed), and no object of the stream carries results.
AbortedAt(i) ==
  LET k == calls[i].doc
      later == IF calls[i].op = "createPDFChunks.throw" THEN 1..Len(files)
               ELSE (k + 1)..Len(files)
  IN  /\ pc = "done"
      /\ outcome = "threw"
      /\ i = Len(calls)
      /\ \A d \in later :
           /\ CallsOf("processPDFChunk", d) = {}
           /\ CallsOf("searchRelevantChunks", d) = {}
           /\ CallsOf("storeEmbeddings", d) = {}
      /\ \A j \in DOMAIN stream :
           /\ stream[j].type # "completion"
           /\ "results" \notin DOMAIN stream[j]

\* The stream ends with its only terminal object, an error object.
EndsWithError ==
  /\ Cardinality(Terminals) = 1
  /\ Len(stream) \in Terminals
  /\ stream[Len(stream)].type = "error"

\* C37: when populate throws for document k, or the split throws for any
\* document, parseDocuments returns no results, the Answers computed for the
\* documents before k are never delivered, no extraction or query call is
\* made for a later document, and the stream holds an error object and no
\* completion object.
C37_RunLevelFailureAllOrNothing ==
  \A i \in RunLevelThrows : AbortedAt(i) /\ EndsWithError

\* C37 as amended: the same, the error object being on the stream exactly
\* when the consumer had not gone away before the failure; a consumer that
\* had gone away gets no terminal object at all.
C37_AllOrNothingUnlessDisconnected ==
  \A i \in RunLevelThrows :
    /\ AbortedAt(i)
    /\ IF Disconnected THEN Terminals = {} ELSE EndsWithError

\* Populate threw for the second document after the first document's
\* Answers had been computed, and the stream ends with the error object.
C37_Witness ==
  /\ \E i \in RunLevelThrows :
       calls[i].op = "storeEmbeddings.throw" /\ calls[i].doc = 2
  /\ Len(fileResults) = 1
  /\ fileResults[1].answers # <<>>
  /\ EndsWithError


\* The positions of the stream at and after the `chunks_created` update.
SinceChunksCreated ==
  { j \in DOMAIN stream :
      \E i \in 1..j : stream[i].step = "chunks_created" }

\* Every progress object of the stream carries its own position as
\* currentStep: the counter grows by exactly 1 per emitted progress event.
StepCountsEvents ==
  \A j \in DOMAIN stream :
    stream[j].type = "progress" => stream[j].currentStep = j

\* C38: in every progress object written to the stream after
\* `chunks_created`, currentStep is at most totalSteps; currentStep grows by
\* exactly 1 per emitted progress event, so the progress events of a run
\* are no more than the published total step count.
C38_CurrentStepWithinTotal ==
  /\ StepCountsEvents
  /\ \A j \in SinceChunksCreated :
       stream[j].type = "progress" =>
         stream[j].currentStep <= stream[j].totalSteps


\* C39: for every page count N >= 0, chunk size C > 0 and overlap O >= 0,
\* the loop of splitPdfChunks terminates, it has emitted exactly ceil(N/C)
\* slices when it returns, and each iteration emits one slice and advances
\* the start page by C, whatever the overlap.
C39_SplitLoopTerminates ==
  /\ <>(split.at = "returned")
  /\ [](split.at = "returned" =>
          Len(split.slices) = CeilDiv(split.total, split.chunkSize))
  /\ [][ split'.slices # split.slices =>
           /\ Len(split'.slices) = Len(split.slices) + 1
           /\ split'.start = split.start + split.chunkSize
           /\ split'.overlap = split.overlap ]_vars

\* The loop has returned after three iterations or more, with an overlap
\* and a last slice shorter than the chunk size.
C39_Witness ==
  /\ split.at = "returned"
  /\ split.overlap > 0
  /\ Len(split.slices) >= 3
  /\ split.total % split.chunkSize # 0
  /\ split.start = Len(split.slices) * split.chunkSize
  /\ split.start > split.total


====
